---- MODULE Spec2Model ----
(***************************************************************************)
(* A state-machine model of the Diophantine equality solver                *)
(* (lp::dioph_eq::imp, src/unnamed/part_000) together with the part of its *)
(* host, the linear-arithmetic solver lar_solver / int_solver, that the    *)
(* solver reads and mutates.                                               *)
(*                                                                         *)
(* Conventions.                                                            *)
(*  - Indices are 1-based here and 0-based in the source: row i of the     *)
(*    model is row i-1 of the source, and likewise for local variables and *)
(*    host columns.  The value 0 plays the role of UINT_MAX (-1).          *)
(*  - An mpq is a pair <<n, d>> in lowest terms with d > 0.                *)
(*  - A sparse row / term / indexed_vector is a function whose domain is   *)
(*    the set of indices with a non-zero coefficient.                      *)
(*  - dio, lra and lia are the three objects; their fields keep the names  *)
(*    of the source.  The operators that model methods are functions from  *)
(*    the triple s = [dio, lra, lia] to the triple after the call.         *)
(***************************************************************************)
EXTENDS Integers, Sequences, FiniteSets, TLC

VARIABLES dio, lra, lia, pc, ret, hist, xpto, scan

vars == <<dio, lra, lia, pc, ret, hist, xpto, scan>>

(***************************************************************************)
(* Bounds of the model.                                                    *)
(***************************************************************************)
\* the plain integer host columns x and y (columns 1 and 2)
Vars == {1, 2}
NV == Cardinality(Vars)
\* at most this many terms are alive in the host at any time
MaxTerms == 2
\* host bounds are asserted with values 0..MaxBoundVal
MaxBoundVal == 1
\* a behaviour follows the loop of branching_on_undef for this many rounds
MaxBranchRounds == 5
\* the kinds of bound the host asserts
BoundKinds == {"LE", "GE", "EQ"}
\* what the host does in one behaviour, in this order: "T" add a term, "B1"
\* and "B2" assert a bound of the first and of the second term column, "V" a
\* bound of a variable, "P" push a scope, "O" pop it, "C" call check(), "X"
\* raise the cancel flag (at any moment from then on), "R" lower it
Scripts == { <<"T", "T", "B2", "B2", "C", "C">>,
             <<"T", "B1", "C", "C">>,
             <<"T", "V", "B1", "C">>,
             <<"T", "B1", "C", "P", "T", "B2", "C", "O", "C">>,
             <<"T", "P", "B1", "C", "O", "B1", "C">>,
             <<"T", "P", "B1", "C", "O", "T", "B1", "C">>,
             <<"T", "P", "B1", "V", "V", "C", "O", "B1", "C">>,
             <<"T", "T", "B2", "C", "X", "R", "C">>,
             <<"T", "P", "B1", "C", "O", "B1", "X", "C", "O", "C", "O", "C", "O", "C",
               "O", "C", "O", "R", "C">> }
\* integer assignments are enumerated over -IntBox..IntBox
IntBox == 4

(***************************************************************************)
(* mpq arithmetic.                                                         *)
(***************************************************************************)
Abs(x) == IF x < 0 THEN -x ELSE x

RECURSIVE GCD(_, _)
GCD(a, b) == IF b = 0 THEN a ELSE GCD(b, a % b)

LCM(a, b) == (a * b) \div GCD(a, b)

Q(n, d) ==
    LET s == IF d < 0 THEN -1 ELSE 1
        g == GCD(Abs(n), Abs(d))
    IN  <<(s * n) \div g, (s * d) \div g>>

Zero == <<0, 1>>
One == <<1, 1>>
MinusOne == <<-1, 1>>
I2Q(n) == <<n, 1>>

RAdd(a, b) == IF a[2] = 1 /\ b[2] = 1 THEN <<a[1] + b[1], 1>>
              ELSE Q(a[1] * b[2] + b[1] * a[2], a[2] * b[2])
RNeg(a) == <<-a[1], a[2]>>
RSub(a, b) == RAdd(a, RNeg(b))
RMul(a, b) == IF a[2] = 1 /\ b[2] = 1 THEN <<a[1] * b[1], 1>>
              ELSE Q(a[1] * b[1], a[2] * b[2])
RDiv(a, b) == Q(a[1] * b[2], a[2] * b[1])
RIsInt(a) == a[2] = 1
RIsZero(a) == a[1] = 0
RLess(a, b) == a[1] * b[2] < b[1] * a[2]
RAbs(a) == <<Abs(a[1]), a[2]>>
RFloor(a) == a[1] \div a[2]
RCeil(a) == -((-a[1]) \div a[2])
\* gcd of two mpq numbers: the gcd of the numerators
RGcd(a, b) == <<GCD(Abs(a[1]), Abs(b[1])), 1>>

\* machine_div_rem with the quotient rounded down instead of towards zero
machine_div_floor(a, b) ==
    IF b[1] > 0 THEN <<a[1] \div b[1], 1>> ELSE <<(-a[1]) \div (-b[1]), 1>>

\* machine_div_rem(a, b, r): truncated division of integers, r = a - q*b
machine_div(a, b) ==
    LET q == Abs(a[1]) \div Abs(b[1])
    IN  IF (a[1] < 0) = (b[1] < 0) THEN <<q, 1>> ELSE <<-q, 1>>
machine_rem(a, b) == RSub(a, RMul(machine_div(a, b), b))

(***************************************************************************)
(* Sparse vectors.                                                         *)
(***************************************************************************)
EmptyVec == [j \in {} |-> Zero]
Coef(v, j) == IF j \in DOMAIN v THEN v[j] ELSE Zero
Clean(v) == [j \in {i \in DOMAIN v : v[i] # Zero} |-> v[j]]
VAdd(u, v) == Clean([j \in (DOMAIN u) \cup (DOMAIN v) |-> RAdd(Coef(u, j), Coef(v, j))])
VScale(a, v) == Clean([j \in DOMAIN v |-> RMul(a, v[j])])
VErase(v, k) == [j \in (DOMAIN v) \ {k} |-> v[j]]
VSet(v, k, a) == Clean([j \in (DOMAIN v) \cup {k} |-> IF j = k THEN a ELSE v[j]])
Unit(k, a) == Clean([j \in {k} |-> a])

SetMax(S) == IF S = {} THEN 0
             ELSE LET x == CHOOSE y \in S : \A z \in S : z <= y IN x
SetMin(S) == CHOOSE y \in S : \A z \in S : y <= z

RECURSIVE gcd_of_set(_)
gcd_of_set(S) ==
    IF S = {} THEN 0
    ELSE LET a == CHOOSE y \in S : TRUE
         IN  GCD(Abs(a[1]), gcd_of_set(S \ {a}))

\* gcd_of_coeffs(k): 0 for the empty row, else the gcd of the coefficients
gcd_of_coeffs(v) == <<gcd_of_set({v[j] : j \in DOMAIN v}), 1>>

\* Let(e, F): F applied to the value of e
Let(e, F(_)) == F(e)

\* sequence helpers
SeqRemove(q, x) == SelectSeq(q, LAMBDA y : y # x)
SeqSet(q) == {q[i] : i \in 1..Len(q)}
SeqFront(q) == SubSeq(q, 1, Len(q) - 1)
NoDup(q) == \A i, j \in 1..Len(q) : i # j => q[i] # q[j]
RECURSIVE SetToSeq(_)
SetToSeq(S) == IF S = {} THEN <<>>
               ELSE LET m == SetMin(S) IN <<m>> \o SetToSeq(S \ {m})

(***************************************************************************)
(* The host: lar_solver / int_solver as far as the solver uses it.         *)
(* Columns 1..NV are integer variables; column NV + k is the column of the *)
(* k-th term.  Terms are added and removed last-in first-out through the   *)
(* host trail.                                                             *)
(***************************************************************************)
AllCols == 1..(NV + MaxTerms)
NoBound == [has |-> FALSE, v |-> Zero]
Bnd(v) == [has |-> TRUE, v |-> v]

\* the terms the host may assert, as coefficient vectors over the variables
TermCatalog ==
    { (1 :> I2Q(2)) @@ (2 :> I2Q(3)),
      (1 :> I2Q(2)) @@ (2 :> I2Q(4)),
      (2 :> I2Q(1)) }

column_count(h) == NV + Len(h.terms)
column_has_term(h, j) == j > NV /\ j <= column_count(h)
get_term(h, j) == h.terms[j - NV]
\* the host's columns are integer but for those of h.reals
column_is_int(h, j) == j \notin h.reals
column_is_fixed(h, j) == h.lower[j].has /\ h.upper[j].has /\ h.lower[j].v = h.upper[j].v
column_is_free(h, j) == ~h.lower[j].has /\ ~h.upper[j].has
get_lower_bound(h, j) == h.lower[j].v
get_upper_bound(h, j) == h.upper[j].v
\* lar_term::ext_coeffs(): the monomials of the term and -1 * (its column)
ext_coeffs(h, j) == get_term(h, j) @@ (j :> MinusOne)
all_vars_are_int(h, t) == \A j \in DOMAIN t : column_is_int(h, j)
\* the number of the scopes of the host that are open
ScopeDepth(h) == Cardinality({n \in 1..Len(h.trail) : h.trail[n].kind = "scope"})
InScope(h) == \E i \in 1..Len(h.trail) : h.trail[i].kind = "scope"
TrailPush(h, e) == IF InScope(h) THEN [h EXCEPT !.trail = Append(@, e)] ELSE h

(***************************************************************************)
(* Variable register (var_register_dio).                                   *)
(***************************************************************************)
external_is_used(reg, j) == \E l \in 1..Len(reg) : reg[l] = j
external_to_local(reg, j) ==
    IF external_is_used(reg, j) THEN CHOOSE l \in 1..Len(reg) : reg[l] = j ELSE 0
local_to_external(reg, l) == IF l \in 1..Len(reg) THEN reg[l] ELSE 0
\* add_var(j): the local id of j, a new one when j is unknown or j = UINT_MAX
reg_add(reg, j) == IF j # 0 /\ external_is_used(reg, j) THEN reg ELSE Append(reg, j)
reg_local(reg, j) == IF j # 0 /\ external_is_used(reg, j) THEN external_to_local(reg, j)
                     ELSE Len(reg) + 1
reg_shrink(reg, n) == IF n < Len(reg) THEN SubSeq(reg, 1, n) ELSE reg
RECURSIVE reg_add_all(_, _)
reg_add_all(reg, js) == IF js = <<>> THEN reg
                        ELSE reg_add_all(reg_add(reg, Head(js)), Tail(js))

is_fresh_var(d, j) == local_to_external(d.m_var_register, j) = 0
local_to_lar_solver(d, j) == local_to_external(d.m_var_register, j)
lar_solver_to_local(d, j) == external_to_local(d.m_var_register, j)
can_substitute(d, k) == k >= 1 /\ k <= Len(d.m_k2s) /\ d.m_k2s[k] # 0
is_fixed(s, j) == column_is_fixed(s.lra, j)

\* column j of a matrix: the rows with a cell in column j
MatColumn(m, j) == {i \in 1..Len(m) : j \in DOMAIN m[i]}
\* the number of columns of m_e_matrix (kept equal to the register's size)
e_column_count(d) == Len(d.m_var_register)

(***************************************************************************)
(* Terms with a constant (term_o) are records [v, c].                      *)
(***************************************************************************)
RECURSIVE RSum(_, _)
RSum(f, S) == IF S = {} THEN Zero
              ELSE LET j == CHOOSE y \in S : TRUE IN RAdd(f[j], RSum(f, S \ {j}))

get_term_from_entry(d, i) == [v |-> d.m_e_matrix[i], c |-> d.m_entries[i].m_c]

\* fix_vars(t): the fixed columns of t folded into the constant
fix_vars(h, t) ==
    LET fx == {j \in DOMAIN t : column_is_fixed(h, j)}
    IN  [v |-> [j \in (DOMAIN t) \ fx |-> t[j]],
         c |-> RSum([j \in fx |-> RMul(t[j], get_lower_bound(h, j))], fx)]

\* open_ml(ml): sum of ml[k] * (lra.get_term(k) - k)
RECURSIVE open_ml_rec(_, _, _)
open_ml_rec(h, ml, S) ==
    IF S = {} THEN EmptyVec
    ELSE LET k == CHOOSE y \in S : TRUE
         IN  VAdd(VScale(ml[k], ext_coeffs(h, k)), open_ml_rec(h, ml, S \ {k}))
open_ml(h, ml) == open_ml_rec(h, ml, DOMAIN ml)

\* the L-row refers only to terms the host still has
l_row_is_open(h, ml) == \A k \in DOMAIN ml : column_has_term(h, k)

\* term_to_lar_solver: local ids replaced by host columns
term_to_lar_solver(d, v) ==
    [e \in {local_to_lar_solver(d, l) : l \in DOMAIN v}
        |-> v[external_to_local(d.m_var_register, e)]]

\* remove_fresh_vars: every fresh variable replaced through its defining row
RECURSIVE remove_fresh_vars(_, _, _)
remove_fresh_vars(d, t, fuel) ==
    LET fr == {j \in DOMAIN t.v : is_fresh_var(d, j)}
    IN  IF fr = {} \/ fuel = 0 THEN t
        ELSE LET xt == SetMin(fr)
                 ok == /\ xt <= Len(d.m_fresh_definitions)
                       /\ d.m_fresh_definitions[xt].m_ei \in 1..Len(d.m_entries)
             IN  IF ~ok THEN t
                 ELSE LET fresh_t == get_term_from_entry(d, d.m_fresh_definitions[xt].m_ei)
                          a == t.v[xt]
                      IN  remove_fresh_vars(d,
                              [v |-> VAdd(VErase(t.v, xt), VScale(a, VErase(fresh_t.v, xt))),
                               c |-> RAdd(t.c, RMul(a, fresh_t.c))],
                              fuel - 1)

entry_invariant(s, ei) ==
    Let(remove_fresh_vars(s.dio, get_term_from_entry(s.dio, ei),
                          Len(s.dio.m_var_register) + 1),
        LAMBDA t :
          /\ \A j \in DOMAIN s.dio.m_e_matrix[ei] : RIsInt(s.dio.m_e_matrix[ei][j])
          /\ l_row_is_open(s.lra, s.dio.m_l_matrix[ei])
          /\ \A j \in DOMAIN t.v : ~is_fresh_var(s.dio, j)
          /\ [v |-> term_to_lar_solver(s.dio, t.v), c |-> t.c]
                = fix_vars(s.lra, open_ml(s.lra, s.dio.m_l_matrix[ei])))

(***************************************************************************)
(* Host callbacks.                                                         *)
(***************************************************************************)
add_term_callback_unfiltered(s, j) == [s EXCEPT !.dio.m_added_terms = Append(@, j)]

add_term_callback(s, j) ==
    IF ~column_is_int(s.lra, j) THEN s
    ELSE IF ~all_vars_are_int(s.lra, get_term(s.lra, j)) THEN s
    ELSE [s EXCEPT !.dio.m_added_terms = Append(@, j)]

add_changed_column(s, j) == [s EXCEPT !.dio.m_changed_columns = @ \cup {j}]

\* update_column_bound_callback putting the rows of the column back among the
\* rows to rewrite at once, instead of leaving that to the next check()
update_column_bound_callback_eager(s, j) ==
    IF ~column_is_int(s.lra, j) \/ ~column_is_fixed(s.lra, j) THEN s
    ELSE LET rows == IF external_is_used(s.dio.m_var_register, j)
                     THEN MatColumn(s.dio.m_e_matrix, lar_solver_to_local(s.dio, j))
                     ELSE {}
         IN  [s EXCEPT !.dio.m_changed_columns = @ \cup {j},
                       !.dio.m_entries =
                           [i \in DOMAIN @ |->
                               IF i \in rows THEN [@[i] EXCEPT !.m_entry_status = "F"]
                               ELSE @[i]],
                       !.lra = TrailPush(@, [kind |-> "fixed", j |-> j,
                                             lo |-> NoBound, hi |-> NoBound])]

update_column_bound_callback_untracked(s, j) == s

update_column_bound_callback(s, j) ==
    IF ~column_is_int(s.lra, j) \/ ~column_is_fixed(s.lra, j) THEN s
    ELSE [s EXCEPT !.dio.m_changed_columns = @ \cup {j},
                   !.lra = TrailPush(@, [kind |-> "fixed", j |-> j,
                                         lo |-> NoBound, hi |-> NoBound])]

\* std::list / std::find + erase: the first occurrence is removed
RECURSIVE remove_entry_index(_, _)
remove_entry_index(l, ei) ==
    IF l = <<>> THEN l
    ELSE IF Head(l) = ei THEN Tail(l)
    ELSE <<Head(l)>> \o remove_entry_index(Tail(l), ei)

move_entry_from_s_to_f(d, ei) ==
    IF d.m_entries[ei].m_entry_status = "F" THEN d
    ELSE [d EXCEPT !.m_entries[ei].m_entry_status = "F",
                   !.m_k2s = [l \in 1..Len(@) |-> IF @[l] = ei THEN 0 ELSE @[l]],
                   !.m_s = SeqRemove(@, ei),
                   !.m_f = Append(@, ei)]

RECURSIVE lcm_of_set(_)
lcm_of_set(T) == IF T = {} THEN 1
                 ELSE LET a == CHOOSE y \in T : TRUE IN LCM(a, lcm_of_set(T \ {a}))

\* recalculate_entry: E-row and constant of row ei rebuilt from its L-row
\* a term over host columns as a row over the local ids of the register reg
local_row(reg, t) == [l \in {external_to_local(reg, e) : e \in DOMAIN t} |-> t[reg[l]]]

recalculate_entry(s, ei) ==
    Let(fix_vars(s.lra, open_ml(s.lra, s.dio.m_l_matrix[ei])), LAMBDA opened :
    Let(reg_add_all(s.dio.m_var_register, SetToSeq(DOMAIN opened.v)), LAMBDA reg :
    Let(local_row(reg, opened.v), LAMBDA row :
    Let(I2Q(lcm_of_set({row[l][2] : l \in DOMAIN row})), LAMBDA denom :
        [s EXCEPT !.dio.m_var_register = reg,
                  !.dio.m_entries[ei].m_c = RMul(opened.c, denom),
                  !.dio.m_l_matrix[ei] = VScale(denom, @),
                  !.dio.m_e_matrix[ei] = VScale(denom, row)]))))

(***************************************************************************)
(* Row bookkeeping.                                                        *)
(***************************************************************************)
SwapAt(q, i, k) == [q EXCEPT ![i] = q[k], ![k] = q[i]]
SwapIdx(t, i, k) == IF t = i THEN k ELSE IF t = k THEN i ELSE t

remove_entry_from_lists(d, ei) ==
    IF d.m_entries[ei].m_entry_status = "F"
    THEN [d EXCEPT !.m_f = SeqRemove(@, ei)]
    ELSE [d EXCEPT !.m_s = SeqRemove(@, ei)]

add_entry_to_lists(d, ei) ==
    IF d.m_entries[ei].m_entry_status = "F"
    THEN [d EXCEPT !.m_f = Append(@, ei)]
    ELSE [d EXCEPT !.m_s = Append(@, ei)]

transpose_entries(d, i, k) ==
    LET d1 == [d EXCEPT !.m_l_matrix = SwapAt(@, i, k),
                        !.m_e_matrix = SwapAt(@, i, k)]
        d2 == remove_entry_from_lists(remove_entry_from_lists(d1, i), k)
        d3 == [d2 EXCEPT !.m_entries = SwapAt(@, i, k)]
        d4 == add_entry_to_lists(add_entry_to_lists(d3, i), k)
    IN  [d4 EXCEPT
            !.m_fresh_definitions =
                [x \in 1..Len(@) |-> [@[x] EXCEPT !.m_ei = SwapIdx(@, i, k)]],
            !.m_k2s = [l \in 1..Len(@) |-> SwapIdx(@[l], i, k)]]

remove_last_entry(d) ==
    LET ei == Len(d.m_entries)
    IN  IF d.m_entries[ei].m_entry_status = "F"
        THEN [d EXCEPT !.m_f = remove_entry_index(@, ei), !.m_entries = SeqFront(@)]
        ELSE [d EXCEPT !.m_s = remove_entry_index(@, ei), !.m_entries = SeqFront(@)]

\* the largest index of a non-empty column of a matrix (0: none)
LastUsedColumn(m) == SetMax(UNION {DOMAIN m[i] : i \in 1..Len(m)})

(***************************************************************************)
(* remove_term_callback and shrink_L_to_sizes.  pick is the row of the     *)
(* head cell of the last L-column (its place in the column's storage       *)
(* order is not part of this model: any row of the column may be it).      *)
(***************************************************************************)
make_sure_j_is_in_the_last_row_of_l_matrix(d, pick) ==
    LET j == d.l_column_count
        last == Len(d.m_l_matrix)
    IN  IF j \in DOMAIN d.m_l_matrix[last] \/ pick = 0 THEN d
        ELSE [d EXCEPT !.m_l_matrix[last] = VAdd(@, d.m_l_matrix[pick])]

RECURSIVE recalculate_all(_, _)
recalculate_all(s, rows) ==
    IF rows = <<>> THEN s
    ELSE recalculate_all(recalculate_entry(s, Head(rows)), Tail(rows))

\* the last row divided by its coefficient alpha of the last column (alpha
\* is 0 only when that column has no cell at all)
pivot_row(l, alpha) == IF alpha = Zero THEN l ELSE VScale(RDiv(One, alpha), l)

eliminate_last_term_column(s, pick) ==
    Let(make_sure_j_is_in_the_last_row_of_l_matrix(s.dio, pick), LAMBDA d1 :
    Let(pivot_row(d1.m_l_matrix[Len(d1.m_l_matrix)],
                  Coef(d1.m_l_matrix[Len(d1.m_l_matrix)], d1.l_column_count)),
        LAMBDA prow :
    Let(MatColumn(d1.m_l_matrix, d1.l_column_count) \ {Len(d1.m_l_matrix)},
        LAMBDA rows_to_change :
          recalculate_all(
            [s EXCEPT !.dio = [d1 EXCEPT !.m_l_matrix =
               [i \in 1..Len(@) |->
                   IF i = Len(@) THEN prow
                   ELSE IF i \in rows_to_change
                        THEN VAdd(@[i], VScale(RNeg(@[i][d1.l_column_count]), prow))
                        ELSE @[i]]]],
            SetToSeq(rows_to_change)))))

RECURSIVE FirstIndex(_, _, _)
FirstIndex(q, P(_), i) == IF i > Len(q) THEN 0
                          ELSE IF P(q[i]) THEN i ELSE FirstIndex(q, P, i + 1)

\* the first element of q equal to x replaced by y
ReplaceFirst(q, x, y) ==
    Let(FirstIndex(q, LAMBDA e : e = x, 1),
        LAMBDA n : IF n = 0 THEN q ELSE [q EXCEPT ![n] = y])

\* the last row, of index i, and the trailing empty columns leave the matrices
remove_last_row(d, i) ==
    Let(FirstIndex(d.m_fresh_definitions, LAMBDA fe : fe.m_origin = i, 1), LAMBDA fi :
        [d EXCEPT !.m_l_matrix = SeqFront(@),
                  !.m_e_matrix = SeqFront(@),
                  !.l_column_count = LastUsedColumn(SeqFront(d.m_l_matrix)),
                  !.m_var_register = reg_shrink(@, LastUsedColumn(SeqFront(d.m_e_matrix))),
                  !.m_fresh_definitions =
                      IF fi = 0 THEN @ ELSE [@ EXCEPT ![fi] = [m_ei |-> 0, m_origin |-> 0]],
                  !.m_k2s = ReplaceFirst(@, i, 0),
                  !.m_f = remove_entry_index(@, i),
                  !.m_s = remove_entry_index(@, i),
                  !.m_entries = SeqFront(@)])

shrink_L_to_sizes(s, pick) ==
    Let(eliminate_last_term_column(s, pick),
        LAMBDA s1 : [s1 EXCEPT !.dio = remove_last_row(@, Len(s.dio.m_l_matrix))])

\* the rows pick may name in remove_term_callback(t)
HeadCellRows(d) ==
    IF Len(d.m_l_matrix) = 0 THEN {0}
    ELSE IF d.l_column_count \in DOMAIN d.m_l_matrix[Len(d.m_l_matrix)] THEN {0}
    ELSE IF MatColumn(d.m_l_matrix, d.l_column_count) = {} THEN {0}
    ELSE MatColumn(d.m_l_matrix, d.l_column_count)

\* swap-with-last removal of the last occurrence of t in m_added_terms
remove_added_term_keeping(q, t) == q

remove_added_term(q, t) ==
    LET occ == {i \in 1..Len(q) : q[i] = t}
    IN  IF occ = {} THEN q
        ELSE LET i == SetMax(occ)
             IN  SeqFront(IF i # Len(q) THEN [q EXCEPT ![i] = q[Len(q)]] ELSE q)

remove_term_callback(s, t, pick) ==
    IF t \notin s.dio.m_active_terms
    THEN [s EXCEPT !.dio.m_added_terms = remove_added_term(@, t)]
    ELSE LET cols == DOMAIN ext_coeffs(s.lra, t)
             s1 == [s EXCEPT !.dio.m_columns_to_terms =
                                 [c \in DOMAIN @ |-> IF c \in cols THEN @[c] \ {t} ELSE @[c]],
                             !.dio.m_active_terms = @ \ {t}]
         IN  shrink_L_to_sizes(s1, pick)

(***************************************************************************)
(* init(): process_changed_columns, then a row for every pending term.     *)
(***************************************************************************)
register_columns_to_term(s, t) ==
    LET cols == DOMAIN ext_coeffs(s.lra, t)
    IN  [s EXCEPT !.dio.m_columns_to_terms =
                     [c \in DOMAIN @ |-> IF c \in cols THEN @[c] \cup {t} ELSE @[c]]]

\* fill_entry(t): the row  sum(a_i * x_i) - t.j() = 0, fixed columns in m_c
fill_entry(s, t) ==
    Let(fix_vars(s.lra, ext_coeffs(s.lra, t)), LAMBDA opened :
    Let(reg_add_all(s.dio.m_var_register, SetToSeq(DOMAIN opened.v)), LAMBDA reg :
        [s EXCEPT !.dio.m_f = Append(@, Len(s.dio.m_entries) + 1),
                  !.dio.m_entries = Append(@, [m_c |-> opened.c, m_entry_status |-> "F"]),
                  !.dio.m_l_matrix = Append(@, Unit(t, One)),
                  !.dio.l_column_count = IF t > @ THEN t ELSE @,
                  !.dio.m_var_register = reg,
                  !.dio.m_e_matrix = Append(@, local_row(reg, opened.v))]))

\* one round of the loop over fresh_entries_to_remove, for the definition xt of
\* row ei; d1 is the store after the transposition.  fd is a reference into
\* m_fresh_definitions: after the transposition fd.m_ei is what
\* transpose_entries left there
remove_fresh_entry(r, xt, ei, last_ei, d1) ==
    [ub |-> FALSE,
     d |-> [remove_last_entry(
              [d1 EXCEPT !.m_fresh_definitions[xt] = [m_ei |-> 0, m_origin |-> 0]])
              EXCEPT !.m_l_matrix = SeqFront(@), !.m_e_matrix = SeqFront(@)],
     etr |-> (IF ei # last_ei /\ last_ei \in r.etr
              THEN (r.etr \ {last_ei}) \cup {d1.m_fresh_definitions[xt].m_ei}
              ELSE r.etr)
             \cup MatColumn(d1.m_e_matrix, xt)]

\* the loop over fresh_entries_to_remove; r = [d, etr, ub].  A definition whose
\* m_ei names a row that is gone makes transpose_entries index the matrices
\* and m_entries out of their range: ub
RECURSIVE remove_fresh_entries(_, _)
remove_fresh_entries(r, xts) ==
    IF xts = <<>> THEN r
    ELSE IF r.d.m_fresh_definitions[Head(xts)].m_ei > Len(r.d.m_entries)
    THEN [r EXCEPT !.ub = TRUE]
    ELSE remove_fresh_entries(
            remove_fresh_entry(r, Head(xts),
                r.d.m_fresh_definitions[Head(xts)].m_ei, Len(r.d.m_entries),
                IF r.d.m_fresh_definitions[Head(xts)].m_ei # Len(r.d.m_entries)
                THEN transpose_entries(r.d, r.d.m_fresh_definitions[Head(xts)].m_ei,
                                       Len(r.d.m_entries))
                ELSE r.d),
            Tail(xts))

\* the tail of the loop body over entries_to_recalculate: the trailing column
\* of the register and of L is dropped when it is empty
drop_last_columns(s, d, n) ==
    [s EXCEPT !.dio =
        [d EXCEPT !.m_var_register =
                     IF n > 0 /\ MatColumn(d.m_e_matrix, n) = {}
                     THEN reg_shrink(@, n - 1) ELSE @,
                  !.l_column_count =
                     IF @ > 0 /\ MatColumn(d.m_l_matrix, @) = {} THEN @ - 1 ELSE @],
              !.hist.ub = @ \/ n = 0 \/ d.l_column_count = 0]

\* the loop over entries_to_recalculate
RECURSIVE recalculate_entries(_, _)
recalculate_entries(s, ks) ==
    IF ks = <<>> THEN s
    ELSE IF Head(ks) > Len(s.dio.m_entries) THEN recalculate_entries(s, Tail(ks))
    ELSE recalculate_entries(
            Let(recalculate_entry(s, Head(ks)), LAMBDA s1 :
            Let(move_entry_from_s_to_f(s1.dio, Head(ks)), LAMBDA d2 :
                drop_last_columns(s1, d2, Len(d2.m_var_register)))),
            Tail(ks))

\* delete_column(j) is NOT_IMPLEMENTED_YET: the process exits
changed_column_was_deleted(s) ==
    \E j \in s.dio.m_changed_columns : j > column_count(s.lra)

\* every row, changed column or not
entries_to_recalculate_all(d) == 1..Len(d.m_entries)

\* the rows that hold a changed column, in E or through a term of L
entries_to_recalculate(d) ==
    UNION {MatColumn(d.m_e_matrix, lar_solver_to_local(d, j)) :
              j \in {c \in d.m_changed_columns : external_is_used(d.m_var_register, c)}}
    \cup UNION {MatColumn(d.m_l_matrix, j) :
              j \in UNION {d.m_columns_to_terms[c] : c \in d.m_changed_columns}}

\* the fresh definitions whose origin is to be recalculated
fresh_entries_to_remove(d, etr) ==
    {xt \in 1..Len(d.m_fresh_definitions) :
        /\ d.m_fresh_definitions[xt].m_ei # 0
        /\ d.m_fresh_definitions[xt].m_origin \in etr}

\* a vector consumed from its back
Reverse(q) == [i \in 1..Len(q) |-> q[Len(q) + 1 - i]]

\* process_changed_columns without the clear() that ends it
process_changed_columns_keeping(s) ==
    Let(entries_to_recalculate(s.dio), LAMBDA etr :
    Let(remove_fresh_entries([d |-> s.dio, etr |-> etr, ub |-> FALSE],
            Reverse(SetToSeq(fresh_entries_to_remove(s.dio, etr)))), LAMBDA r :
        IF r.ub THEN [s EXCEPT !.hist.ub = TRUE]
        ELSE recalculate_entries([s EXCEPT !.dio = r.d], SetToSeq(r.etr))))

process_changed_columns(s) ==
    Let(entries_to_recalculate(s.dio), LAMBDA etr :
    Let(remove_fresh_entries([d |-> s.dio, etr |-> etr, ub |-> FALSE],
            Reverse(SetToSeq(fresh_entries_to_remove(s.dio, etr)))), LAMBDA r :
        IF r.ub THEN [s EXCEPT !.hist.ub = TRUE]
        ELSE [recalculate_entries([s EXCEPT !.dio = r.d], SetToSeq(r.etr))
                 EXCEPT !.dio.m_changed_columns = {}]))

RECURSIVE activate_terms(_, _)
activate_terms(s, ts) ==
    IF ts = <<>> THEN s
    ELSE activate_terms(
            register_columns_to_term(
                fill_entry([s EXCEPT !.dio.m_active_terms = @ \cup {Head(ts)}], Head(ts)),
                Head(ts)),
            Tail(ts))

\* the terms added since the last check get their rows
add_new_terms(s) == [activate_terms(s, s.dio.m_added_terms) EXCEPT !.dio.m_added_terms = <<>>]

\* init(); nothing of it is followed once the behaviour is undefined
init(s) ==
    add_new_terms(process_changed_columns(
        [s EXCEPT !.dio.m_report_branch = FALSE,
                  !.dio.m_conflict_index = 0,
                  !.dio.m_infeas_explanation = {},
                  !.lia.term = EmptyVec,
                  !.dio.m_number_of_iterations = 0,
                  !.dio.m_branch_stack = <<>>,
                  !.dio.m_lra_level = 0]))

(***************************************************************************)
(* Normalize-by-gcd.                                                       *)
(***************************************************************************)
\* lra.settings().dio_cut_from_proof_period()
dio_cut_from_proof_period == 2

has_fresh_var(d, row_index) ==
    \E j \in DOMAIN d.m_e_matrix[row_index] : is_fresh_var(d, j)

\* prepare_lia_branch_report reporting the other side of the split
prepare_lia_branch_report_ceil(s, ei, g, new_c) ==
    LET d == s.dio
        t == term_to_lar_solver(d, VScale(RDiv(One, g), d.m_e_matrix[ei]))
    IN  [s EXCEPT !.lia.term = VAdd(@, t),
                  !.lia.offset = RCeil(RNeg(new_c)),
                  !.lia.is_upper = TRUE,
                  !.dio.m_report_branch = TRUE]

prepare_lia_branch_report(s, ei, g, new_c) ==
    LET d == s.dio
        t == term_to_lar_solver(d, VScale(RDiv(One, g), d.m_e_matrix[ei]))
    IN  [s EXCEPT !.lia.term = VAdd(@, t),
                  !.lia.offset = RFloor(RNeg(new_c)),
                  !.lia.is_upper = TRUE,
                  !.dio.m_report_branch = TRUE]

\* normalize_e_by_gcd leaving a row whose coefficients share a divisor as it is
normalize_e_by_gcd_keeping(s, ei) ==
    LET d == s.dio
        g == gcd_of_coeffs(d.m_e_matrix[ei])
        c_g == RDiv(d.m_entries[ei].m_c, g)
    IN  IF g = Zero \/ g = One \/ RIsInt(c_g) THEN [s |-> s, ok |-> TRUE]
        ELSE IF s.lra.stats.m_dio_calls % dio_cut_from_proof_period = 0
                /\ ~has_fresh_var(d, ei)
        THEN [s |-> prepare_lia_branch_report(s, ei, g, c_g), ok |-> FALSE]
        ELSE [s |-> s, ok |-> FALSE]

\* normalize_e_by_gcd dividing the row and its constant and leaving the L-row
normalize_e_by_gcd_leaving_l(s, ei) ==
    LET d == s.dio
        g == gcd_of_coeffs(d.m_e_matrix[ei])
        c_g == RDiv(d.m_entries[ei].m_c, g)
    IN  IF g = Zero \/ g = One THEN [s |-> s, ok |-> TRUE]
        ELSE IF RIsInt(c_g)
        THEN [s |-> [s EXCEPT !.dio.m_e_matrix[ei] = VScale(RDiv(One, g), @),
                              !.dio.m_entries[ei].m_c = c_g],
              ok |-> TRUE]
        ELSE IF s.lra.stats.m_dio_calls % dio_cut_from_proof_period = 0
                /\ ~has_fresh_var(d, ei)
        THEN [s |-> prepare_lia_branch_report(s, ei, g, c_g), ok |-> FALSE]
        ELSE [s |-> s, ok |-> FALSE]

\* normalize_e_by_gcd dividing the row before it looks at c / g
normalize_e_by_gcd_dividing(s, ei) ==
    LET d == s.dio
        g == gcd_of_coeffs(d.m_e_matrix[ei])
        c_g == RDiv(d.m_entries[ei].m_c, g)
    IN  IF g = Zero \/ g = One THEN [s |-> s, ok |-> TRUE]
        ELSE [s |-> [s EXCEPT !.dio.m_e_matrix[ei] = VScale(RDiv(One, g), @),
                              !.dio.m_entries[ei].m_c = c_g,
                              !.dio.m_l_matrix[ei] = VScale(RDiv(One, g), @)],
              ok |-> RIsInt(c_g)]

\* r = [s, ok]: ok is the value normalize_e_by_gcd returns
normalize_e_by_gcd(s, ei) ==
    LET d == s.dio
        g == gcd_of_coeffs(d.m_e_matrix[ei])
        c_g == RDiv(d.m_entries[ei].m_c, g)
    IN  IF g = Zero \/ g = One THEN [s |-> s, ok |-> TRUE]
        ELSE IF RIsInt(c_g)
        THEN [s |-> [s EXCEPT !.dio.m_e_matrix[ei] = VScale(RDiv(One, g), @),
                              !.dio.m_entries[ei].m_c = c_g,
                              !.dio.m_l_matrix[ei] = VScale(RDiv(One, g), @)],
              ok |-> TRUE]
        ELSE IF s.lra.stats.m_dio_calls % dio_cut_from_proof_period = 0
                /\ ~has_fresh_var(d, ei)
        THEN [s |-> prepare_lia_branch_report(s, ei, g, c_g), ok |-> FALSE]
        ELSE [s |-> s, ok |-> FALSE]

\* the loop of normalize_by_gcd over m_f, from position i on
RECURSIVE normalize_by_gcd_from(_, _)
normalize_by_gcd_from(s, i) ==
    IF i > Len(s.dio.m_f) THEN [s |-> s, ok |-> TRUE]
    ELSE Let(normalize_e_by_gcd(s, s.dio.m_f[i]), LAMBDA r :
            IF ~r.ok
            THEN [s |-> [r.s EXCEPT !.dio.m_conflict_index = s.dio.m_f[i]], ok |-> FALSE]
            ELSE normalize_by_gcd_from(r.s, i + 1))

normalize_by_gcd(s) == normalize_by_gcd_from(s, 1)

(***************************************************************************)
(* The rewrite step.                                                       *)
(***************************************************************************)
\* The scan of find_minimal_abs_coeff over the cells of a row in the order
\* the row stores them; a cell is [var, coeff].  r = [first, ahk, k, k_sign]
\* are the locals of the function after the cells before position i.
RECURSIVE scan_cells_from(_, _, _)
scan_cells_from(cells, i, r) ==
    IF i > Len(cells) THEN r
    ELSE LET t == RAbs(cells[i].coeff)
         IN  IF r.first \/ RLess(t, r.ahk) \/ (t = r.ahk /\ cells[i].var < r.k)
             THEN LET r1 == [first |-> FALSE, ahk |-> t, k |-> cells[i].var,
                             k_sign |-> IF RLess(Zero, cells[i].coeff) THEN 1 ELSE -1]
                  IN  IF t = One THEN r1 ELSE scan_cells_from(cells, i + 1, r1)
             ELSE scan_cells_from(cells, i + 1, r)
\* the tuple (ahk, k, k_sign) the function returns for a non-empty row
scan_cells(cells) ==
    LET r == scan_cells_from(cells, 1, [first |-> TRUE, ahk |-> Zero, k |-> 0, k_sign |-> 0])
    IN  [ahk |-> r.ahk, k |-> r.k, k_sign |-> r.k_sign]

\* the row status of the scan: the stored row and what was returned for it
NoPivot == [ahk |-> Zero, k |-> 0, k_sign |-> 0]
NoScan == [cells |-> <<>>, out |-> NoPivot]

\* find_minimal_abs_coeff(ei): the scan stops at the first cell with |coeff| = 1,
\* so with a unit coefficient in the row the result is the variable of the first
\* such cell in the row's storage order; otherwise it is the variable of the
\* least |coeff|, the smallest local id among equals.  The set of the variables
\* the scan can return, over the storage orders of the row.
find_minimal_abs_coeff(d, ei) ==
    LET row == d.m_e_matrix[ei]
        units == {j \in DOMAIN row : RAbs(row[j]) = One}
        least == {j \in DOMAIN row : \A i \in DOMAIN row : ~RLess(RAbs(row[i]), RAbs(row[j]))}
    IN  IF units # {} THEN units ELSE {SetMin(least)}

move_entry_from_f_to_s(d, k, h) ==
    LET k2s == IF k > Len(d.m_k2s)
               THEN d.m_k2s \o [i \in 1..(k - Len(d.m_k2s)) |-> 0]
               ELSE d.m_k2s
    IN  [d EXCEPT !.m_entries[h].m_entry_status = "S",
                  !.m_s = Append(@, h),
                  !.m_k2s = [k2s EXCEPT ![k] = h],
                  !.m_f = SeqRemove(@, h)]

\* eliminate_var_in_f pivoting every other row that contains j, whatever its
\* status
eliminate_var_in_all(s, ei, j, j_sign) ==
    LET d == s.dio
        rows == MatColumn(d.m_e_matrix, j) \ {ei}
        alpha(i) == RNeg(RMul(I2Q(j_sign), d.m_e_matrix[i][j]))
    IN  [s EXCEPT
           !.dio.m_entries = [i \in 1..Len(@) |->
               IF i \in rows
               THEN [@[i] EXCEPT !.m_c = RAdd(@, RMul(alpha(i), d.m_entries[ei].m_c))]
               ELSE @[i]],
           !.dio.m_e_matrix = [i \in 1..Len(@) |->
               IF i \in rows
               THEN VErase(VAdd(@[i], VScale(alpha(i), d.m_e_matrix[ei])), j)
               ELSE @[i]],
           !.dio.m_l_matrix = [i \in 1..Len(@) |->
               IF i \in rows THEN VAdd(@[i], VScale(alpha(i), d.m_l_matrix[ei]))
               ELSE @[i]]]

\* eliminate_var_in_f(ei, j, j_sign): j leaves every other row of status F
eliminate_var_in_f(s, ei, j, j_sign) ==
    LET d == s.dio
        rows == {i \in MatColumn(d.m_e_matrix, j) \ {ei} :
                    d.m_entries[i].m_entry_status = "F"}
        alpha(i) == RNeg(RMul(I2Q(j_sign), d.m_e_matrix[i][j]))
    IN  [s EXCEPT
           !.dio.m_entries = [i \in 1..Len(@) |->
               IF i \in rows
               THEN [@[i] EXCEPT !.m_c = RAdd(@, RMul(alpha(i), d.m_entries[ei].m_c))]
               ELSE @[i]],
           !.dio.m_e_matrix = [i \in 1..Len(@) |->
               IF i \in rows
               THEN VErase(VAdd(@[i], VScale(alpha(i), d.m_e_matrix[ei])), j)
               ELSE @[i]],
           !.dio.m_l_matrix = [i \in 1..Len(@) |->
               IF i \in rows THEN VAdd(@[i], VScale(alpha(i), d.m_l_matrix[ei]))
               ELSE @[i]]]

\* std::vector::resize(n, v): longer or shorter
Resize(q, n, v) == [i \in 1..n |-> IF i <= Len(q) THEN q[i] ELSE v]

\* fresh_var_step leaving the constant of row h as it is
fresh_var_step_keeping_c(s, h, k, ahk) ==
    LET d == s.dio
        work == d.m_e_matrix[h]
        xt == Len(d.m_var_register) + 1
        fresh_row == Len(d.m_e_matrix) + 1
        others == (DOMAIN work) \ {k}
        rs == Clean([i \in others |-> machine_rem(work[i], ahk)])
        qs == Clean([i \in others |-> machine_div(work[i], ahk)])
        no_def == [m_ei |-> 0, m_origin |-> 0]
        d1 == [d EXCEPT
                 !.m_var_register = Append(@, 0),
                 !.m_entries = Append(@, [m_c |-> machine_div(d.m_entries[h].m_c, ahk),
                                          m_entry_status |-> "NO_S_NO_F"]),
                 !.m_e_matrix = Append([@ EXCEPT ![h] = rs @@ (xt :> ahk)],
                                       qs @@ (xt :> MinusOne) @@ (k :> One)),
                 !.m_l_matrix = Append(@, EmptyVec),
                 !.m_k2s = [Resize(@, k, 0) EXCEPT ![k] = fresh_row],
                 !.m_fresh_definitions =
                     [Resize(@, xt, no_def) EXCEPT ![xt] = [m_ei |-> fresh_row, m_origin |-> h]]]
    IN  eliminate_var_in_f([s EXCEPT !.dio = d1], fresh_row, k, 1)

\* fresh_var_step with the quotients left in row h and the remainders put
\* into the fresh row
fresh_var_step_swapped(s, h, k, ahk) ==
    LET d == s.dio
        work == d.m_e_matrix[h]
        xt == Len(d.m_var_register) + 1
        fresh_row == Len(d.m_e_matrix) + 1
        others == (DOMAIN work) \ {k}
        rs == Clean([i \in others |-> machine_rem(work[i], ahk)])
        qs == Clean([i \in others |-> machine_div(work[i], ahk)])
        no_def == [m_ei |-> 0, m_origin |-> 0]
        d1 == [d EXCEPT
                 !.m_var_register = Append(@, 0),
                 !.m_entries = Append([@ EXCEPT ![h].m_c = machine_rem(@, ahk)],
                                      [m_c |-> machine_div(d.m_entries[h].m_c, ahk),
                                       m_entry_status |-> "NO_S_NO_F"]),
                 !.m_e_matrix = Append([@ EXCEPT ![h] = qs @@ (xt :> ahk)],
                                       rs @@ (xt :> MinusOne) @@ (k :> One)),
                 !.m_l_matrix = Append(@, EmptyVec),
                 !.m_k2s = [Resize(@, k, 0) EXCEPT ![k] = fresh_row],
                 !.m_fresh_definitions =
                     [Resize(@, xt, no_def) EXCEPT ![xt] = [m_ei |-> fresh_row, m_origin |-> h]]]
    IN  eliminate_var_in_f([s EXCEPT !.dio = d1], fresh_row, k, 1)

\* fresh_var_step(h, k, ahk): step 7 of the paper; ahk is the coefficient of k
fresh_var_step(s, h, k, ahk) ==
    LET d == s.dio
        work == d.m_e_matrix[h]
        xt == Len(d.m_var_register) + 1
        fresh_row == Len(d.m_e_matrix) + 1
        others == (DOMAIN work) \ {k}
        rs == Clean([i \in others |-> machine_rem(work[i], ahk)])
        qs == Clean([i \in others |-> machine_div(work[i], ahk)])
        no_def == [m_ei |-> 0, m_origin |-> 0]
        d1 == [d EXCEPT
                 !.m_var_register = Append(@, 0),
                 !.m_entries = Append([@ EXCEPT ![h].m_c = machine_rem(@, ahk)],
                                      [m_c |-> machine_div(d.m_entries[h].m_c, ahk),
                                       m_entry_status |-> "NO_S_NO_F"]),
                 !.m_e_matrix = Append([@ EXCEPT ![h] = rs @@ (xt :> ahk)],
                                       qs @@ (xt :> MinusOne) @@ (k :> One)),
                 !.m_l_matrix = Append(@, EmptyVec),
                 !.m_k2s = [Resize(@, k, 0) EXCEPT ![k] = fresh_row],
                 !.m_fresh_definitions =
                     [Resize(@, xt, no_def) EXCEPT ![xt] = [m_ei |-> fresh_row, m_origin |-> h]]]
    IN  eliminate_var_in_f([s EXCEPT !.dio = d1], fresh_row, k, 1)

\* the scan of rewrite_eqs over m_f: [f, h, conflict]
RECURSIVE first_nonempty(_, _)
first_nonempty(d, f) ==
    IF f = <<>> THEN [f |-> f, h |-> 0, conflict |-> 0]
    ELSE IF d.m_e_matrix[Head(f)] = EmptyVec
         THEN IF d.m_entries[Head(f)].m_c = Zero
              THEN first_nonempty(d, Tail(f))
              ELSE [f |-> f, h |-> 0, conflict |-> Head(f)]
         ELSE [f |-> f, h |-> Head(f), conflict |-> 0]

\* the variables rewrite_eqs may choose in the current state ({0}: no row)
PivotChoices(d) ==
    LET r == first_nonempty(d, d.m_f)
    IN  IF r.h = 0 THEN {0} ELSE find_minimal_abs_coeff(d, r.h)

\* the step of rewrite_eqs on the row h with the variable k of coefficient a
rewrite_row(s, h, k, a) ==
    IF RAbs(a) = One
    THEN eliminate_var_in_f([s EXCEPT !.dio = move_entry_from_f_to_s(@, k, h)],
                            h, k, IF a[1] > 0 THEN 1 ELSE -1)
    ELSE fresh_var_step(s, h, k, a)

\* rewrite_eqs leaving the empty rows it passes in m_f
rewrite_eqs_keeping_empty(s, k) ==
    Let(first_nonempty(s.dio, s.dio.m_f), LAMBDA r :
        IF r.conflict # 0
        THEN [s EXCEPT !.dio.m_conflict_index = r.conflict]
        ELSE IF r.h = 0 THEN s
        ELSE rewrite_row(s, r.h, k, s.dio.m_e_matrix[r.h][k]))

\* rewrite_eqs with k the variable find_minimal_abs_coeff returns
rewrite_eqs(s, k) ==
    Let(first_nonempty(s.dio, s.dio.m_f), LAMBDA r :
        IF r.conflict # 0
        THEN [s EXCEPT !.dio.m_f = r.f, !.dio.m_conflict_index = r.conflict]
        ELSE IF r.h = 0 THEN [s EXCEPT !.dio.m_f = r.f]
        ELSE rewrite_row([s EXCEPT !.dio.m_f = r.f], r.h, k, s.dio.m_e_matrix[r.h][k]))

(***************************************************************************)
(* The host's simplex.  A basic solution puts NV of the columns at one of  *)
(* their bounds (a free column at 0) and solves the term rows for the      *)
(* others, which form the basis.                                           *)
(***************************************************************************)
Cols(h) == 1..column_count(h)
\* the row of column j over the variables
ColRow(h, j) == IF j \in Vars THEN [i \in Vars |-> IF i = j THEN One ELSE Zero]
                ELSE [i \in Vars |-> Coef(get_term(h, j), i)]
\* the value of column j under the assignment x of the variables
get_column_value(h, x, j) == RSum([i \in Vars |-> RMul(ColRow(h, j)[i], x[i])], Vars)
RLeq(a, b) == ~RLess(b, a)
column_in_bounds(h, x, j) ==
    /\ h.lower[j].has => RLeq(h.lower[j].v, get_column_value(h, x, j))
    /\ h.upper[j].has => RLeq(get_column_value(h, x, j), h.upper[j].v)
Sat(h, x) == \A j \in Cols(h) : column_in_bounds(h, x, j)

NonbasicValues(h, j) ==
    IF column_is_free(h, j) THEN {Zero}
    ELSE (IF h.lower[j].has THEN {h.lower[j].v} ELSE {})
         \cup (IF h.upper[j].has THEN {h.upper[j].v} ELSE {})

BasicSolutions(h) ==
    LET pairs == {p \in Cols(h) \X Cols(h) : p[1] < p[2]}
        det(p) == RSub(RMul(ColRow(h, p[1])[1], ColRow(h, p[2])[2]),
                       RMul(ColRow(h, p[1])[2], ColRow(h, p[2])[1]))
        sol(p, va, vb) ==
            [x |-> << RDiv(RSub(RMul(va, ColRow(h, p[2])[2]),
                                RMul(ColRow(h, p[1])[2], vb)), det(p)),
                      RDiv(RSub(RMul(ColRow(h, p[1])[1], vb),
                                RMul(va, ColRow(h, p[2])[1])), det(p)) >>,
             basis |-> Cols(h) \ {p[1], p[2]}]
    IN  UNION { UNION { {sol(p, va, vb) : vb \in NonbasicValues(h, p[2])}
                        : va \in NonbasicValues(h, p[1]) }
                : p \in {q \in pairs : det(q) # Zero} }

FeasibleSolutions(h) == {r \in BasicSolutions(h) : Sat(h, r.x)}

\* the order in which the simplex prefers the solutions: the least |x| + |y|
\* first, then the least x, then the least y
Before(a, b) ==
    \/ RLess(RAdd(RAbs(a[1]), RAbs(a[2])), RAdd(RAbs(b[1]), RAbs(b[2])))
    \/ /\ RAdd(RAbs(a[1]), RAbs(a[2])) = RAdd(RAbs(b[1]), RAbs(b[2]))
       /\ \/ RLess(a[1], b[1])
          \/ a[1] = b[1] /\ ~RLess(b[2], a[2])
PreferredSolution(T) == CHOOSE r \in T : \A q \in T : Before(r.x, q.x)

\* find_feasible_solution(): the set of the host states it may end in.  A
\* solution that is still feasible is kept; a new one is the preferred one
find_feasible_solution(h) ==
    IF h.cancel THEN {[h EXCEPT !.status = "CANCELLED"]}
    ELSE IF h.x # <<>> /\ Sat(h, h.x) THEN {[h EXCEPT !.status = "FEASIBLE"]}
    ELSE IF FeasibleSolutions(h) = {} THEN {[h EXCEPT !.status = "INFEASIBLE"]}
    ELSE {[h EXCEPT !.status = "FEASIBLE", !.x = r.x, !.basis = r.basis]
             : r \in {PreferredSolution(FeasibleSolutions(h))}}

is_feasible(h) == h.status = "FEASIBLE"
column_is_int_inf(h, j) ==
    column_is_int(h, j) /\ h.x # <<>> /\ ~RIsInt(get_column_value(h, h.x, j))
r_basis(h) == h.basis \cap Cols(h)

(***************************************************************************)
(* Host mutators.                                                          *)
(***************************************************************************)
\* update_column_type_and_bound(j, kind, v): a bound is only ever tightened;
\* the old pair of bounds goes to the trail; the solver's callback follows
update_column_type_and_bound(s, j, kind, v) ==
    LET h == s.lra
        up == kind \in {"LE", "EQ"} /\ (~h.upper[j].has \/ RLess(v, h.upper[j].v))
        lo == kind \in {"GE", "EQ"} /\ (~h.lower[j].has \/ RLess(h.lower[j].v, v))
        h1 == IF up \/ lo
              THEN TrailPush([h EXCEPT !.upper[j] = IF up THEN Bnd(v) ELSE @,
                                       !.lower[j] = IF lo THEN Bnd(v) ELSE @,
                                       !.status = "UNKNOWN"],
                             [kind |-> "bound", j |-> j,
                              lo |-> h.lower[j], hi |-> h.upper[j]])
              ELSE h
    IN  update_column_bound_callback([s EXCEPT !.lra = h1], j)

push(h) == [h EXCEPT !.trail = Append(@, [kind |-> "scope", j |-> 0,
                                          lo |-> NoBound, hi |-> NoBound])]

\* the undo of the last trail entry: the set of the states it may end in
undo_last(s) ==
    LET e == s.lra.trail[Len(s.lra.trail)]
        s1 == [s EXCEPT !.lra.trail = SeqFront(@), !.lra.status = "UNKNOWN"]
    IN  CASE e.kind = "bound" ->
               {[s1 EXCEPT !.lra.lower[e.j] = e.lo, !.lra.upper[e.j] = e.hi]}
          [] e.kind = "fixed" -> {add_changed_column(s1, e.j)}
          [] e.kind = "term" ->
               {[s2 EXCEPT !.lra.terms = SeqFront(@),
                           !.lra.lower[e.j] = NoBound, !.lra.upper[e.j] = NoBound]
                  : s2 \in {remove_term_callback(s1, e.j, pick)
                               : pick \in HeadCellRows(s1.dio)}}
          [] OTHER -> {s1}

\* pop(): the trail is undone down to and including the last scope mark
RECURSIVE pop(_)
pop(s) ==
    IF s.lra.trail = <<>> THEN {s}
    ELSE IF s.lra.trail[Len(s.lra.trail)].kind = "scope" THEN undo_last(s)
    ELSE UNION {pop(s1) : s1 \in undo_last(s)}

(***************************************************************************)
(* The tightener.  The work state is w = [v, c, l, q, is_one, ub]:         *)
(* m_indexed_work_vector, m_c, m_tmp_l, the queue of the variables to      *)
(* substitute, the value a read behind a row's cells gives to is_one, and  *)
(* whether a read went outside the matrix.                                 *)
(***************************************************************************)
\* the integer assignments of the variables that the host's terms and bounds admit
IntPoints == {<<I2Q(a), I2Q(b)>> : a \in (-IntBox)..IntBox, b \in (-IntBox)..IntBox}
IntSolutions(h) == {x \in IntPoints : Sat(h, x)}

\* an explanation is the set of the columns whose bound constraints it names
explain_fixed(h, t) == {j \in DOMAIN t : column_is_fixed(h, j)}
explain_fixed_in_meta_term(h, ml) ==
    IF l_row_is_open(h, ml) THEN explain_fixed(h, open_ml(h, ml)) ELSE {}
get_infeasibility_explanation(h) == {j \in Cols(h) : ~column_is_free(h, j)}

\* explain() reading the stored explanation whatever the conflict index is
explain_stored(s) == s.dio.m_infeas_explanation

\* explain(ex): what it pushes onto the host's empty explanation
explain(s) ==
    IF s.dio.m_conflict_index = 0 THEN s.dio.m_infeas_explanation
    ELSE explain_fixed_in_meta_term(s.lra, s.dio.m_l_matrix[s.dio.m_conflict_index])

fill_indexed_work_vector_from_term(s, lar_t) ==
    LET fx == {j \in DOMAIN lar_t : is_fixed(s, j)}
        nf == (DOMAIN lar_t) \ fx
    IN  [v |-> [l \in {lar_solver_to_local(s.dio, j) : j \in nf} \ {0}
                   |-> lar_t[local_to_lar_solver(s.dio, l)]],
         c |-> RSum([j \in fx |-> RMul(lar_t[j], get_lower_bound(s.lra, j))], fx),
         l |-> EmptyVec,
         q |-> <<>>,
         is_one |-> FALSE,
         ub |-> \E j \in nf : lar_solver_to_local(s.dio, j) = 0]

\* the substitution of k in w by the row ei, which holds k with coefficient 1
\* or -1; v1 is the work vector after it
subs_with_row(d, w, k, ei, coeff, v1) ==
    [w EXCEPT !.v = v1,
              !.q = @ \o SelectSeq(SetToSeq((DOMAIN d.m_e_matrix[ei]) \ {k}),
                            LAMBDA j : /\ ~is_fresh_var(d, j)
                                       /\ Coef(v1, j) # Zero
                                       /\ can_substitute(d, j)),
              !.c = RAdd(@, RMul(coeff, d.m_entries[ei].m_c)),
              !.l = VAdd(@, VScale(coeff, d.m_l_matrix[ei]))]

subs_front(d, w, k, ei, coeff) ==
    subs_with_row(d, w, k, ei, coeff,
                  VAdd(VErase(w.v, k), VScale(coeff, VErase(d.m_e_matrix[ei], k))))

\* subs_front_in_indexed_vector(q).  When m_k2s[k] names a row that is gone
\* (or an empty one) the row read is outside the matrix: ub.  When the row
\* does not hold k, the search for k's cell ends at e_row.end() and
\* k_coeff_in_e is what lies behind the row's cells: is_one is then either
\* value, w.is_one
subs_front_in_indexed_vector(d, w) ==
    IF Coef(w.v, Head(w.q)) = Zero THEN [w EXCEPT !.q = Tail(@)]
    ELSE IF d.m_k2s[Head(w.q)] > Len(d.m_e_matrix)
    THEN [w EXCEPT !.q = Tail(@), !.ub = TRUE]
    ELSE IF d.m_e_matrix[d.m_k2s[Head(w.q)]] = EmptyVec
    THEN [w EXCEPT !.q = Tail(@), !.ub = TRUE]
    ELSE subs_front(d, [w EXCEPT !.q = Tail(@)], Head(w.q), d.m_k2s[Head(w.q)],
                    IF IF Head(w.q) \in DOMAIN d.m_e_matrix[d.m_k2s[Head(w.q)]]
                       THEN d.m_e_matrix[d.m_k2s[Head(w.q)]][Head(w.q)] = One
                       ELSE w.is_one
                    THEN RNeg(w.v[Head(w.q)]) ELSE w.v[Head(w.q)])

\* the substitution loop needs at most one round for every variable it meets;
\* SubsFuel bounds the rounds a run of the model follows
SubsFuel == 12
RECURSIVE subs_indexed_vector_with_S(_, _, _)
subs_indexed_vector_with_S(d, w, fuel) ==
    IF w.q = <<>> \/ fuel = 0 THEN w
    ELSE subs_indexed_vector_with_S(d, subs_front_in_indexed_vector(d, w), fuel - 1)

\* the bound is sound when every integer solution of the host's terms and
\* bounds satisfies it
bound_is_sound(h, j, upper, bound) ==
    \A x \in IntSolutions(h) :
        IF upper THEN RLeq(get_column_value(h, x, j), bound)
        ELSE RLeq(bound, get_column_value(h, x, j))

\* the host's answer to the new bound: the outcomes [s, conflict]
tighten_outcomes(s1) ==
    { IF h.status = "INFEASIBLE"
      THEN [s |-> [s1 EXCEPT !.lra = h,
                      !.dio.m_infeas_explanation = get_infeasibility_explanation(h)],
            conflict |-> TRUE]
      ELSE [s |-> [s1 EXCEPT !.lra = h], conflict |-> FALSE]
      : h \in find_feasible_solution(s1.lra) }

push_tightened_bound(s, j, upper, bound) ==
    tighten_outcomes(
        update_column_type_and_bound(
            [s EXCEPT !.hist.tight =
                [n |-> IF @.n < 2 THEN @.n + 1 ELSE @.n,
                 sound |-> @.sound /\ bound_is_sound(s.lra, j, upper, bound)]],
            j, IF upper THEN "LE" ELSE "GE", bound))

\* tighten_bound_kind rounding the wrong way: up for an upper bound, down for
\* a lower one
tighten_bound_kind_outwards(s, w, g, j, ub, upper) ==
    push_tightened_bound(s, j, upper,
        RAdd(RMul(g, I2Q(IF upper THEN RCeil(ub) ELSE RFloor(ub))), w.c))

\* tighten_bound_kind: the set of the outcomes [s, conflict]
tighten_bound_kind(s, w, g, j, ub, upper) ==
    push_tightened_bound(s, j, upper,
        RAdd(RMul(g, I2Q(IF upper THEN RFloor(ub) ELSE RCeil(ub))), w.c))

tighten_bounds_for_non_trivial_gcd(s, w, g, j, is_upper) ==
    LET b == IF is_upper THEN s.lra.upper[j] ELSE s.lra.lower[j]
        rs == RDiv(RSub(b.v, w.c), g)
    IN  IF b.has /\ ~RIsInt(rs) THEN tighten_bound_kind(s, w, g, j, rs, is_upper)
        ELSE {[s |-> s, conflict |-> FALSE]}

handle_constant_term(s, w, j) ==
    LET h == s.lra
        expl == explain_fixed(h, get_term(h, j))
                   \cup explain_fixed_in_meta_term(h, w.l) \cup {j}
    IN  IF w.c = Zero THEN s
        ELSE IF h.upper[j].has /\ RLess(h.upper[j].v, w.c)
        THEN [s EXCEPT !.dio.m_infeas_explanation = @ \cup expl]
        ELSE IF h.lower[j].has /\ RLess(w.c, h.lower[j].v)
        THEN [s EXCEPT !.dio.m_infeas_explanation = @ \cup expl]
        ELSE s

\* the end of tighten_bounds_for_term_column: w is the work vector after the
\* substitutions and g the gcd of its coefficients
tighten_with_gcd(s, j, w, g) ==
    IF g = One THEN {[s |-> s, conflict |-> FALSE]}
    ELSE IF g = Zero
    THEN {[s |-> s1, conflict |-> s1.dio.m_infeas_explanation # {}]
             : s1 \in {handle_constant_term(s, w, j)}}
    ELSE UNION { IF r.conflict THEN {r}
                 ELSE tighten_bounds_for_non_trivial_gcd(r.s, w, g, j, FALSE)
                 : r \in tighten_bounds_for_non_trivial_gcd(s, w, g, j, TRUE) }

tighten_with_work_vector(s, j, w) ==
    tighten_with_gcd([s EXCEPT !.hist.ub = @ \/ w.ub], j, w, gcd_of_coeffs(w.v))

\* the columns of the term t that m_S substitutes
substituted_columns(s, t) ==
    SelectSeq(SetToSeq(DOMAIN t),
              LAMBDA p : /\ ~column_is_fixed(s.lra, p)
                         /\ can_substitute(s.dio, lar_solver_to_local(s.dio, p)))

\* the queue of tighten_bounds_for_term_column: local ids
local_ids(d, q) == [i \in 1..Len(q) |-> lar_solver_to_local(d, q[i])]

tighten_with_queue(s, j, q) ==
    IF ~all_vars_are_int(s.lra, get_term(s.lra, j)) \/ q = <<>>
    THEN {[s |-> s, conflict |-> FALSE]}
    ELSE UNION { tighten_with_work_vector(s, j,
                    subs_indexed_vector_with_S(s.dio,
                        [fill_indexed_work_vector_from_term(s, get_term(s.lra, j))
                            EXCEPT !.q = q, !.is_one = b],
                        SubsFuel))
                 : b \in BOOLEAN }

\* tighten_bounds_for_term_column(j): the set of the outcomes [s, conflict]
tighten_bounds_for_term_column(s, j) ==
    tighten_with_queue(s, j,
        local_ids(s.dio, substituted_columns(s, get_term(s.lra, j))))

\* the loop of tighten_terms_with_S from column j on: the outcomes [s, conflict]
RECURSIVE tighten_terms_from(_, _)
tighten_terms_from(s, j) ==
    IF j > column_count(s.lra) THEN {[s |-> s, conflict |-> FALSE]}
    ELSE IF \/ ~column_has_term(s.lra, j) \/ column_is_free(s.lra, j)
            \/ is_fixed(s, j) \/ ~column_is_int(s.lra, j)
    THEN tighten_terms_from(s, j + 1)
    ELSE UNION { IF r.conflict THEN {r} ELSE tighten_terms_from(r.s, j + 1)
                 : r \in tighten_bounds_for_term_column(s, j) }

tighten_terms_with_S(s) == tighten_terms_from(s, 1)

(***************************************************************************)
(* The brancher.  Operators that solve the host's LP return the set of the *)
(* states they may end in.                                                 *)
(***************************************************************************)
Bind(S, F(_)) == UNION {F(x) : x \in S}
Solve(s) == {[s EXCEPT !.lra = h] : h \in find_feasible_solution(s.lra)}

lra_push(s) == [s EXCEPT !.dio.m_lra_level = @ + 1, !.lra = push(@)]
lra_pop_keeping_level(s) == Bind(pop(s), Solve)
lra_pop(s) == Bind(pop([s EXCEPT !.dio.m_lra_level = @ - 1]), Solve)

RECURSIVE undo_explored_branches(_)
undo_explored_branches(s) ==
    LET st == s.dio.m_branch_stack
    IN  IF st # <<>> /\ st[Len(st)].m_fully_explored
        THEN Bind(lra_pop([s EXCEPT !.dio.m_branch_stack = SeqFront(@)]),
                  undo_explored_branches)
        ELSE {s}

\* while (m_lra_level--) lra.pop();  the counter is left at UINT_MAX (-1 here)
RECURSIVE undo_branching_pops(_)
undo_branching_pops(s) ==
    IF s.dio.m_lra_level = 0 THEN {[s EXCEPT !.dio.m_lra_level = -1]}
    ELSE Bind(pop([s EXCEPT !.dio.m_lra_level = @ - 1]), undo_branching_pops)
undo_branching(s) == Bind(undo_branching_pops(s), Solve)

\* the count taken over the columns outside the basis
get_number_of_int_inf_nbasis(h) ==
    Cardinality({j \in Cols(h) \ r_basis(h) : column_is_int_inf(h, j)})

get_number_of_int_inf(h) == Cardinality({j \in r_basis(h) : column_is_int_inf(h, j)})

\* create_branch: the branches it may return (none: no integer-infeasible
\* basic column); the random tie-break and the random side are choices
create_branch(h) ==
    {[m_j |-> j, m_rs |-> RFloor(get_column_value(h, h.x, j)),
      m_left |-> left, m_fully_explored |-> FALSE]
        : j \in {c \in r_basis(h) : column_is_int_inf(h, c)}, left \in BOOLEAN}

flip_staying(b) == [b EXCEPT !.m_fully_explored = TRUE]
flip(b) == [b EXCEPT !.m_left = ~@, !.m_fully_explored = TRUE]
flip_back(s) ==
    [s EXCEPT !.dio.m_branch_stack = [@ EXCEPT ![Len(@)] = flip(@)]]

\* the check of the constant of the row alone
check_fixing_without_value(s, j) ==
    LET d == s.dio
        ei == d.m_k2s[j]
        g == gcd_of_coeffs(VErase(d.m_e_matrix[ei], j))
    IN  IF g = One THEN {FALSE}
        ELSE IF g = Zero THEN BOOLEAN
        ELSE {~RIsInt(RDiv(d.m_entries[ei].m_c, g))}

\* check_fixing(j): the results it may give, TRUE for a conflict.  With no
\* cell but j's in the row the code divides by g = 0: either result
check_fixing(s, j) ==
    LET d == s.dio
        ei == d.m_k2s[j]
        row == d.m_e_matrix[ei]
        c == RAdd(d.m_entries[ei].m_c,
                  IF j \in DOMAIN row
                  THEN RMul(row[j], get_lower_bound(s.lra, local_to_lar_solver(d, j)))
                  ELSE Zero)
        g == gcd_of_coeffs(VErase(row, j))
    IN  IF g = One THEN {FALSE}
        ELSE IF g = Zero THEN BOOLEAN
        ELSE {~RIsInt(RDiv(c, g))}

\* fix_var(j): the outcomes [s, conflict]
fix_var(s, j) ==
    IF can_substitute(s.dio, j) /\ s.dio.m_k2s[j] <= Len(s.dio.m_e_matrix)
    THEN { IF c
           THEN [s |-> [s EXCEPT !.dio.m_explanation_of_branches =
                           @ \cup explain_fixed_in_meta_term(s.lra,
                                       s.dio.m_l_matrix[s.dio.m_k2s[j]])],
                 conflict |-> TRUE]
           ELSE [s |-> s, conflict |-> FALSE]
           : c \in check_fixing(s, j) }
    ELSE {[s |-> s, conflict |-> FALSE]}

\* the end of add_var_bound_for_branch, after the bound is set
fix_branched_var(s1, j) ==
    IF column_is_fixed(s1.lra, j) /\ external_is_used(s1.dio.m_var_register, j)
    THEN fix_var(s1, lar_solver_to_local(s1.dio, j))
    ELSE {[s |-> s1, conflict |-> FALSE]}

add_var_bound_for_branch_from_rs(s, b) ==
    fix_branched_var(
        update_column_type_and_bound(s, b.m_j, IF b.m_left THEN "LE" ELSE "GE", I2Q(b.m_rs)),
        b.m_j)

add_var_bound_for_branch(s, b) ==
    fix_branched_var(
        IF b.m_left
        THEN update_column_type_and_bound(s, b.m_j, "LE", I2Q(b.m_rs))
        ELSE update_column_type_and_bound(s, b.m_j, "GE", I2Q(b.m_rs + 1)),
        b.m_j)

transfer_explanations_from_closed_branches(s) ==
    [s EXCEPT !.dio.m_infeas_explanation = s.dio.m_explanation_of_branches]

Stat(s, f) == [s EXCEPT !.lra.stats[f] = @ + 1]

\* what follows a closed branch: r = [s, ret, need]
after_closed_branch(s, pop_first) ==
    Bind(undo_explored_branches(s),
         LAMBDA s1 :
            IF s1.dio.m_branch_stack = <<>>
            THEN {[s |-> transfer_explanations_from_closed_branches(
                            Stat(s1, "m_dio_branching_infeasibles")),
                   ret |-> "conflict", need |-> FALSE]}
            ELSE {[s |-> s2, ret |-> "continue", need |-> FALSE]
                    : s2 \in IF pop_first
                             THEN {flip_back(s3) : s3 \in lra_pop(s1)}
                             ELSE lra_pop(flip_back(s1))})

\* the loop of branching_on_undef found the branch feasible with no
\* integer-infeasible column
branching_sat(t) ==
    {[s |-> Stat(u, "m_dio_branching_sats"), ret |-> "sat", need |-> FALSE]
        : u \in undo_branching(t)}

\* after lra.find_feasible_solution() in the loop
after_branch_solve(u) ==
    IF u.lra.status = "FEASIBLE"
    THEN IF get_number_of_int_inf(u.lra) = 0 THEN branching_sat(u)
         ELSE {[s |-> u, ret |-> "continue", need |-> TRUE]}
    ELSE IF u.lra.status = "CANCELLED"
    THEN {[s |-> u, ret |-> "undef", need |-> FALSE]}
    ELSE after_closed_branch(
            [u EXCEPT !.dio.m_infeas_explanation = get_infeasibility_explanation(u.lra),
                      !.dio.m_explanation_of_branches =
                          @ \cup get_infeasibility_explanation(u.lra)],
            TRUE)

\* lra_push(), the bound of the top branch, the host's solve
explore_branch(t) ==
    Bind(add_var_bound_for_branch(lra_push(t),
                                  t.dio.m_branch_stack[Len(t.dio.m_branch_stack)]),
         LAMBDA r : IF r.conflict THEN after_closed_branch(r.s, FALSE)
                    ELSE Bind(Solve(r.s), after_branch_solve))

\* push_branch(create_branch())
push_branch(s, br) ==
    [s EXCEPT !.dio.m_branch_stack = Append(@, br),
              !.lra.stats.m_dio_branching_depth =
                  IF Len(s.dio.m_branch_stack) + 1 > @
                  THEN Len(s.dio.m_branch_stack) + 1 ELSE @]

\* the body of the loop after the count of the iteration
branching_round(s, need_create_branch) ==
    IF ~need_create_branch THEN explore_branch(s)
    ELSE IF create_branch(s.lra) = {} THEN branching_sat(s)
    ELSE Bind({push_branch(s, br) : br \in create_branch(s.lra)}, explore_branch)

\* one round of the loop of branching_on_undef: the outcomes [s, ret, need]
branching_step(s0, need_create_branch) ==
    IF s0.dio.m_number_of_iterations + 1 >= s0.dio.m_max_number_of_iterations
    THEN {[s |-> u, ret |-> "undef", need |-> FALSE]
             : u \in undo_branching([s0 EXCEPT !.dio.m_number_of_iterations = @ + 1])}
    ELSE branching_round(
            Stat([s0 EXCEPT !.dio.m_number_of_iterations = @ + 1],
                 "m_dio_branch_iterations"),
            need_create_branch)

(***************************************************************************)
(* The state machine.  pc.loc is the place of control: "done" between the  *)
(* calls of check(), then "process_f", "tighten" and "branch" inside one;  *)
(* "abort" after NOT_IMPLEMENTED_YET.  ret is the last verdict of check(). *)
(* hist holds history variables only: nothing of the program reads them.   *)
(***************************************************************************)
\* m_max_number_of_iterations: 100 after construction; every check() that
\* returns undef halves it, down to 5
InitialMaxIterations == 100
LeastMaxIterations == 5

S ==[dio |-> dio, lra |-> lra, lia |-> lia, hist |-> hist]
Set(s) == /\ dio' = s.dio
          /\ lra' = s.lra
          /\ lia' = s.lia
          /\ hist' = s.hist
          /\ xpto' = xpto
          /\ scan' = scan
At(loc) == pc.loc = loc
Goto(loc, need) == pc' = [loc |-> loc, need |-> need]
\* control moves to loc inside check(); after undefined behaviour (hist.ub)
\* nothing more of the run is followed: "abort"
Jump(s, loc, need) ==
    /\ Set(s)
    /\ Goto(IF s.hist.ub THEN "abort" ELSE loc, need /\ ~s.hist.ub)
    /\ UNCHANGED ret

NoStats == [m_dio_calls |-> 0, m_dio_cut_from_proofs |-> 0,
            m_dio_normalize_conflicts |-> 0, m_dio_rewrite_conflicts |-> 0,
            m_dio_tighten_conflicts |-> 0, m_dio_branch_iterations |-> 0,
            m_dio_branching_sats |-> 0, m_dio_branching_infeasibles |-> 0,
            m_dio_branching_depth |-> 0]

\* the row store: what a row holds and which variables it substitutes
RowStore(d) ==
    {[e |-> d.m_e_matrix[i], l |-> d.m_l_matrix[i], c |-> d.m_entries[i].m_c,
      status |-> d.m_entries[i].m_entry_status,
      subst |-> {k \in 1..Len(d.m_k2s) : d.m_k2s[k] = i}] : i \in 1..Len(d.m_entries)}
Rows(d) == [e |-> d.m_e_matrix, l |-> d.m_l_matrix,
            c |-> [i \in 1..Len(d.m_entries) |-> d.m_entries[i].m_c]]

NoGcd == [i |-> 0, rows |-> <<>>]
\* what check() found when it was entered: the counters, the iteration budget,
\* and where control was when the cancel flag went up ("before" the check,
\* or the phase of the check; "none" while it is down), whether both
\* work queues held something, and the number of the host's open scopes
NoEntry == [stats |-> NoStats, max_iter |-> 0, cancel |-> "none", queued |-> FALSE,
            depth |-> 0]
\* what the second of two checks with no host operation between them did:
\* the two verdicts, whether the rows and the counters other than m_dio_calls
\* are those of the first, whether no counter fell, and whether the first
\* check returned with changed columns still to process
NoIdem == [twice |-> FALSE, first |-> "none", second |-> "none", rows |-> TRUE,
           stats |-> TRUE, grown |-> TRUE, pending |-> FALSE]

(***************************************************************************)
(* The xpto tactic (xpto_tactic.cpp).  A goal is the sequence of its       *)
(* formulas with its two flags.  The formulas are taken from a small       *)
(* universe over the array constants Arrays and the ground offsets         *)
(* Offsets:                                                                *)
(*   Axiom(arr)      forall v . P(select(arr, v)), no nested quantifier    *)
(*   Axiom2          forall v . P(select(a, v), select(b, v))              *)
(*   Read(arr, idx)  a ground formula that holds select(arr, idx)          *)
(*   Plain           a ground formula without arrays                       *)
(*   Inst(arr, idx)  the body of Axiom(arr) with idx put for v             *)
(* The resource limit is not reached: checkpoint() does not throw.         *)
(***************************************************************************)
Arrays == {"a", "b"}
Offsets == {"i", "j"}
\* the bound variable of a quantifier, as an index of a select
BoundVar == "v"
Axiom(arr) == [k |-> "axiom", arr |-> arr, idx |-> BoundVar]
Axiom2 == [k |-> "axiom2", arr |-> "ab", idx |-> BoundVar]
Read(arr, idx) == [k |-> "read", arr |-> arr, idx |-> idx]
Plain == [k |-> "plain", arr |-> "none", idx |-> "none"]
Inst(arr, idx) == [k |-> "inst", arr |-> arr, idx |-> idx]
Formulas == {Axiom(arr) : arr \in Arrays} \cup {Axiom2, Plain}
               \cup {Read("a", idx) : idx \in Offsets} \cup {Read("b", "i")}
\* the most formulas of a goal the tactic is given, the most applications
MaxForms == 2
MaxApplications == 2
\* const unsigned MaxInst = 100
MaxInst == 100

\* what the traversal of collect gathers from one formula: the array
\* constants, the offsets of the selects, and whether the formula stays a
\* candidate axiom (a quantifier, every select at a variable, no other variable)
FormArrays(form) == CASE form.k = "plain" -> {}
                      [] form.k = "axiom2" -> Arrays
                      [] OTHER -> {form.arr}
FormIdxs(form) == IF form.k = "plain" THEN {} ELSE {form.idx}
MaybeAxiom(form) == form.k \in {"axiom", "axiom2"}

\* the body of the loop of collect for the formula form
collect_form(x, form) ==
    IF MaybeAxiom(form) /\ Cardinality(FormArrays(form)) = 1
    THEN [x EXCEPT !.m_arr2axioms =
             [arr \in Arrays |-> IF arr \in FormArrays(form) THEN @[arr] \cup {form}
                                 ELSE @[arr]]]
    ELSE [x EXCEPT !.m_arr2offsets =
             [arr \in Arrays |-> IF arr \in FormArrays(form) THEN @[arr] \cup FormIdxs(form)
                                 ELSE @[arr]]]

\* collect(g): the formulas of the goal from position i on
RECURSIVE collect_from(_, _)
collect_from(x, i) ==
    IF i > Len(x.g.forms) THEN x
    ELSE collect_from(collect_form(x, x.g.forms[i]), i + 1)
collect(x) == collect_from(x, 1)

\* is_app(idx) && to_app(idx)->is_ground()
is_ground(idx) == idx # BoundVar

\* the orders in which a hash table can hand out the elements of a set
IterationOrders(set) ==
    {q \in [1..Cardinality(set) -> set] : {q[n] : n \in DOMAIN q} = set}

\* the instances the first loop of operator() asserts, in the orders the
\* iteration over m_arr2axioms and m_arr2offsets can produce
RECURSIVE Instantiations(_, _)
Instantiations(x, arrs) ==
    IF arrs = {} THEN {<<>>}
    ELSE UNION {{[n \in DOMAIN q |-> Inst(arr, q[n])] \o rest :
                    q \in IterationOrders(x.m_arr2offsets[arr]),
                    rest \in Instantiations(x, arrs \ {arr})} : arr \in arrs}

\* fail_if_proof_generation, fail_if_unsat_core_generation: the exception
\* the call throws ("none": it returns)
fail_if_proof_generation(g) == IF g.proofs_enabled THEN "proofs" ELSE "none"
fail_if_unsat_core_generation(g) == IF g.unsat_core_enabled THEN "cores" ELSE "none"

\* operator() with collect(*g) before the two checks of the goal's flags
xpto_apply_collecting(x) ==
    LET c == collect([x EXCEPT !.calls = @ + 1, !.result = <<>>])
    IN  IF fail_if_proof_generation(x.g) # "none"
        THEN {[c EXCEPT !.thrown = fail_if_proof_generation(x.g)]}
        ELSE IF fail_if_unsat_core_generation(x.g) # "none"
        THEN {[c EXCEPT !.thrown = fail_if_unsat_core_generation(x.g)]}
        ELSE {[c EXCEPT !.result = <<c.g.forms>>, !.thrown = "none"]}

\* imp::operator()(g, result): the states the call may end in
xpto_apply(x) ==
    LET x0 == [x EXCEPT !.calls = @ + 1, !.result = <<>>]
    IN  IF fail_if_proof_generation(x.g) # "none"
        THEN {[x0 EXCEPT !.thrown = fail_if_proof_generation(x.g)]}
        ELSE IF fail_if_unsat_core_generation(x.g) # "none"
        THEN {[x0 EXCEPT !.thrown = fail_if_unsat_core_generation(x.g)]}
        ELSE LET c == collect(x0)
                 keys == {arr \in Arrays : c.m_arr2axioms[arr] # {}}
                 skipped == {arr \in keys :
                               /\ c.m_arr2offsets[arr] # {}
                               /\ \/ Cardinality(c.m_arr2offsets[arr]) > MaxInst
                                  \/ \E idx \in c.m_arr2offsets[arr] : ~is_ground(idx)}
                 elim_axioms == UNION {c.m_arr2axioms[arr] : arr \in keys \ skipped}
             IN  {[c EXCEPT !.g.forms = SelectSeq(c.g.forms \o ins,
                                                  LAMBDA f : f \notin elim_axioms),
                            !.result = <<SelectSeq(c.g.forms \o ins,
                                                   LAMBDA f : f \notin elim_axioms)>>,
                            !.thrown = "none"]
                    : ins \in Instantiations(c, keys \ skipped)}

\* the tactic as mk_xpto_tactic leaves it, before it is given a goal
XptoNew(g) == [g |-> g,
               m_arr2offsets |-> [arr \in Arrays |-> {}],
               m_arr2axioms |-> [arr \in Arrays |-> {}],
               result |-> <<>>, thrown |-> "none", calls |-> 0]
NoGoal == [forms |-> <<>>, proofs_enabled |-> FALSE, unsat_core_enabled |-> FALSE]
Goals == [forms : UNION {[1..n -> Formulas] : n \in 0..MaxForms},
          proofs_enabled : BOOLEAN, unsat_core_enabled : BOOLEAN]

\* the state after construction; the host is to follow script, with the inputs
\* input where the script names them
\* (hist.input: those still to come; hist.given: all of them)
InitWithReals(script, input, reals) ==
    /\ dio = [m_var_register |-> <<>>, m_entries |-> <<>>,
              m_e_matrix |-> <<>>, m_l_matrix |-> <<>>, l_column_count |-> 0,
              m_f |-> <<>>, m_s |-> <<>>, m_k2s |-> <<>>,
              m_fresh_definitions |-> <<>>, m_conflict_index |-> 0,
              m_max_number_of_iterations |-> InitialMaxIterations,
              m_number_of_iterations |-> 0, m_changed_columns |-> {},
              m_columns_to_terms |-> [j \in AllCols |-> {}],
              m_added_terms |-> <<>>, m_active_terms |-> {},
              m_branch_stack |-> <<>>, m_lra_level |-> 0,
              m_infeas_explanation |-> {}, m_explanation_of_branches |-> {},
              m_report_branch |-> FALSE]
    /\ lra = [terms |-> <<>>, lower |-> [j \in AllCols |-> NoBound],
              upper |-> [j \in AllCols |-> NoBound], trail |-> <<>>,
              x |-> <<>>, basis |-> {}, status |-> "UNKNOWN",
              stats |-> NoStats, cancel |-> FALSE, reals |-> reals]
    /\ lia = [term |-> EmptyVec, offset |-> 0, is_upper |-> FALSE, ex |-> {}]
    /\ pc = [loc |-> "done", need |-> FALSE]
    /\ ret = "none"
    /\ hist = [ub |-> FALSE, tight |-> [n |-> 0, sound |-> TRUE],
               todo |-> script, quiet |-> FALSE,
               base |-> <<>>, idem |-> NoIdem, ran |-> {}, gcd |-> NoGcd,
               scenario |-> 0, first |-> <<>>, entry |-> NoEntry,
               explained |-> FALSE, input |-> input, given |-> input]

\* all the columns integer
InitWith(script, input) == InitWithReals(script, input, {})

Init ==
    /\ \E script \in Scripts : InitWith(script, <<>>)
    /\ xpto = XptoNew(NoGoal)
    /\ scan = NoScan

\* the host's next operation is k
Todo(k) == hist.todo # <<>> /\ Head(hist.todo) = k

\* every host operation between two checks: the solution of the LP is the
\* host's to recompute, and the history of the last check ends
HostOp(s, kind) ==
    LET step == CASE kind = "term" /\ s.hist.scenario \in {0, 3} -> s.hist.scenario + 1
                  [] kind = "bound" /\ s.hist.scenario \in {1, 4} -> s.hist.scenario
                  [] kind = "push" /\ s.hist.scenario = 2 -> 3
                  [] kind = "pop" /\ s.hist.scenario = 5 -> 6
                  [] OTHER -> -1
    IN  [s EXCEPT !.lra.x = <<>>, !.lra.basis = {}, !.lra.status = "UNKNOWN",
                  !.lia.ex = {}, !.hist.explained = FALSE,
                  !.hist.todo = Tail(@), !.hist.quiet = FALSE, !.hist.base = <<>>,
                  !.hist.idem = NoIdem, !.hist.gcd = NoGcd,
                  !.hist.scenario = step,
                  !.hist.first = IF step = -1 THEN <<>> ELSE @]

\* the columns a bound step of the script may name
BoundCols(h, k) ==
    CASE k = "V" -> Vars
      [] k = "B1" -> {NV + 1} \cap Cols(h)
      [] k = "B2" -> {NV + 2} \cap Cols(h)
      [] OTHER -> {}

HostAddTerm ==
    /\ At("done") /\ Todo("T") /\ Len(lra.terms) < MaxTerms
    /\ \E t \in TermCatalog \ SeqSet(lra.terms) :
         LET j == column_count(lra) + 1
             h == TrailPush([lra EXCEPT !.terms = Append(@, t)],
                            [kind |-> "term", j |-> j, lo |-> NoBound, hi |-> NoBound])
         IN  Set(HostOp(add_term_callback([S EXCEPT !.lra = h], j), "term"))
    /\ ret' = "none" /\ UNCHANGED pc

HostUpdateBound ==
    /\ At("done") /\ hist.todo # <<>>
    /\ \E j \in BoundCols(lra, Head(hist.todo)), kind \in BoundKinds, v \in 0..MaxBoundVal :
         \E s1 \in {update_column_type_and_bound(S, j, kind, I2Q(v))} :
             /\ s1.lra # lra
             /\ FeasibleSolutions(s1.lra) # {}
             /\ Set(HostOp(s1, "bound"))
    /\ ret' = "none" /\ UNCHANGED pc

HostPush ==
    /\ At("done") /\ Todo("P")
    /\ Set(HostOp([S EXCEPT !.lra = push(@)], "push"))
    /\ ret' = "none" /\ UNCHANGED pc

HostPop ==
    /\ At("done") /\ Todo("O") /\ InScope(lra)
    /\ \E s1 \in pop(S) : Set(HostOp(s1, "pop"))
    /\ ret' = "none" /\ UNCHANGED pc

\* the cancel flag is the host's to raise at any moment and to lower between
\* checks; between checks it ends the history of the last check like any other
\* host operation
HostCancel ==
    /\ ~At("abort") /\ ~lra.cancel /\ Todo("X")
    /\ lra' = [lra EXCEPT !.cancel = TRUE]
    /\ hist' = IF At("done")
               THEN [hist EXCEPT !.todo = Tail(@), !.quiet = FALSE, !.base = <<>>,
                                 !.idem = NoIdem, !.gcd = NoGcd, !.explained = FALSE]
               ELSE [hist EXCEPT !.todo = Tail(@), !.entry.cancel = pc.loc]
    /\ lia' = [lia EXCEPT !.ex = IF At("done") THEN {} ELSE @]
    /\ ret' = "none"
    /\ UNCHANGED <<dio, pc, xpto, scan>>

HostResume ==
    /\ At("done") /\ lra.cancel /\ Todo("R")
    /\ lra' = [lra EXCEPT !.cancel = FALSE]
    /\ hist' = [hist EXCEPT !.todo = Tail(@), !.quiet = FALSE, !.base = <<>>,
                            !.idem = NoIdem, !.gcd = NoGcd, !.explained = FALSE]
    /\ lia' = [lia EXCEPT !.ex = {}]
    /\ ret' = "none"
    /\ UNCHANGED <<dio, pc, xpto, scan>>

\* check() returns r
ReturnVerdict(s, r) ==
    LET snap == [ret |-> r, rows |-> Rows(s.dio), stats |-> s.lra.stats,
                 pending |-> s.dio.m_changed_columns # {}]
        b == s.hist.base
        idem == IF b = <<>> THEN NoIdem
                ELSE [twice |-> TRUE, first |-> b.ret, second |-> r,
                      rows |-> snap.rows = b.rows,
                      stats |-> [snap.stats EXCEPT !.m_dio_calls = 0]
                                   = [b.stats EXCEPT !.m_dio_calls = 0],
                      grown |-> \A c \in DOMAIN snap.stats : snap.stats[c] >= b.stats[c],
                      pending |-> b.pending]
        sc == IF s.hist.scenario \in {1, 4, 6} THEN s.hist.scenario + 1 ELSE -1
    IN  /\ Set([s EXCEPT !.hist.quiet = TRUE,
                         !.hist.base = snap, !.hist.idem = idem,
                         !.hist.scenario = sc,
                         !.hist.first = IF sc = 2 THEN RowStore(s.dio)
                                        ELSE IF sc = -1 THEN <<>> ELSE @])
        /\ Goto("done", FALSE)
        /\ ret' = r

Return(s, r) == IF s.hist.ub THEN Jump(s, "abort", FALSE) ELSE ReturnVerdict(s, r)

\* the first row of m_f that normalize_e_by_gcd refuses, with no cut to emit
FirstGcdConflict(s) ==
    LET d == s.dio
        bad(i) == LET g == gcd_of_coeffs(d.m_e_matrix[i])
                  IN  g # Zero /\ g # One /\ ~RIsInt(RDiv(d.m_entries[i].m_c, g))
        hits == {n \in 1..Len(d.m_f) : bad(d.m_f[n])}
    IN  IF hits = {} THEN NoGcd
        ELSE LET i == d.m_f[SetMin(hits)]
             IN  IF s.lra.stats.m_dio_calls % dio_cut_from_proof_period = 0
                    /\ ~has_fresh_var(d, i)
                 THEN NoGcd
                 ELSE [i |-> i, rows |-> Rows(d)]

\* after process_f returned undef, and when m_f is empty from the start
AfterProcessF(s) ==
    Jump(s, IF s.dio.m_f = <<>> THEN "tighten" ELSE "process_f", FALSE)

\* the host calls check() with a feasible solution of its LP in hand
HostSolutions(h) ==
    IF h.x # <<>> /\ Sat(h, h.x) THEN {[h EXCEPT !.status = "FEASIBLE"]}
    ELSE {[h EXCEPT !.status = "FEASIBLE", !.x = r.x, !.basis = r.basis]
             : r \in FeasibleSolutions(h)}

\* check() entered with the host state h: m_dio_calls++ and init()
CheckFrom(h) ==
    \E s0 \in {[S EXCEPT !.lra = Stat([lra |-> h], "m_dio_calls").lra,
                         !.lia.ex = {}, !.hist.explained = FALSE,
                         !.hist.entry =
                             [stats |-> lra.stats,
                              max_iter |-> dio.m_max_number_of_iterations,
                              cancel |-> IF lra.cancel THEN "before" ELSE "none",
                              queued |-> dio.m_added_terms # <<>>
                                            /\ dio.m_changed_columns # {},
                              depth |-> ScopeDepth(lra)],
                         !.hist.todo = Tail(@),
                         !.hist.tight = [n |-> 0, sound |-> TRUE],
                         !.hist.ran = {"init"}, !.hist.gcd = NoGcd]} :
       IF changed_column_was_deleted(s0)
       THEN Jump(s0, "abort", FALSE)
       ELSE AfterProcessF(init(s0))

\* check(): m_dio_calls++ and init()
CheckBegin ==
    /\ At("done") /\ Todo("C")
    /\ \E h \in HostSolutions(lra) : CheckFrom(h)

\* check() does not look at the status of the host's LP: the call of a host
\* whose bounds have no solution
CheckUnsolved ==
    /\ At("done") /\ Todo("C")
    /\ FeasibleSolutions(lra) = {}
    /\ CheckFrom([lra EXCEPT !.status = "INFEASIBLE"])

\* process_f after normalize_by_gcd succeeded: rewrite_eqs
ProcessFRewrite(s) ==
    \E k \in PivotChoices(s.dio) :
      \E s2 \in {rewrite_eqs(s, k)} :
         IF s2.dio.m_conflict_index # 0
         THEN Return(Stat(s2, "m_dio_rewrite_conflicts"), "conflict")
         ELSE AfterProcessF(s2)

\* one round of the loop of process_f
ProcessFStep ==
    /\ At("process_f")
    /\ \E r \in {normalize_by_gcd(
                    [S EXCEPT !.hist.ran = @ \cup {"process_f"},
                              !.hist.gcd = IF @ = NoGcd THEN FirstGcdConflict(S) ELSE @])} :
         IF ~r.ok
         THEN IF r.s.dio.m_report_branch
              THEN Return([Stat(r.s, "m_dio_cut_from_proofs")
                              EXCEPT !.dio.m_report_branch = FALSE], "branch")
              ELSE Return(Stat(r.s, "m_dio_normalize_conflicts"), "conflict")
         ELSE ProcessFRewrite(r.s)

\* process_f_and_tighten_terms going on to the brancher after a conflict of
\* the tightener
TightenThenBranch ==
    /\ At("tighten")
    /\ \E r \in tighten_terms_with_S([S EXCEPT !.hist.ran = @ \cup {"tighten"}]) :
         Jump([(IF r.conflict THEN Stat(r.s, "m_dio_tighten_conflicts") ELSE r.s)
                  EXCEPT !.dio.m_explanation_of_branches = {},
                         !.dio.m_number_of_iterations = 0], "branch", TRUE)

\* tighten_terms_with_S(), then the first lines of branching_on_undef
Tighten ==
    /\ At("tighten")
    /\ \E r \in tighten_terms_with_S([S EXCEPT !.hist.ran = @ \cup {"tighten"}]) :
         IF r.conflict
         THEN Return(Stat(r.s, "m_dio_tighten_conflicts"), "conflict")
         ELSE Jump([r.s EXCEPT !.dio.m_explanation_of_branches = {},
                               !.dio.m_number_of_iterations = 0], "branch", TRUE)

\* one round of the loop of branching_on_undef, the budget left as it is
\* when the brancher gives up
BranchStepKeepingBudget ==
    /\ At("branch") /\ dio.m_number_of_iterations < MaxBranchRounds
    /\ \E o \in branching_step([S EXCEPT !.hist.ran = @ \cup {"branch"}], pc.need) :
         CASE o.ret = "continue" -> Jump(o.s, "branch", o.need)
           [] OTHER -> Return(o.s, o.ret)

\* one round of the loop of branching_on_undef
BranchStep ==
    /\ At("branch") /\ dio.m_number_of_iterations < MaxBranchRounds
    /\ \E o \in branching_step([S EXCEPT !.hist.ran = @ \cup {"branch"}], pc.need) :
         CASE o.ret = "continue" -> Jump(o.s, "branch", o.need)
           [] o.ret = "undef" ->
                Return([o.s EXCEPT !.dio.m_max_number_of_iterations =
                                      IF @ \div 2 > LeastMaxIterations
                                      THEN @ \div 2 ELSE LeastMaxIterations], "undef")
           [] OTHER -> Return(o.s, o.ret)

\* the host asks for the explanation of the conflict check() returned
Explain ==
    /\ At("done") /\ ret = "conflict" /\ ~hist.explained
    /\ lia' = [lia EXCEPT !.ex = explain(S)]
    /\ hist' = [hist EXCEPT !.explained = TRUE]
    /\ UNCHANGED <<dio, lra, pc, ret, xpto, scan>>

Next ==
    \/ HostAddTerm
    \/ HostUpdateBound
    \/ HostPush
    \/ HostPop
    \/ HostCancel
    \/ HostResume
    \/ CheckBegin
    \/ ProcessFStep
    \/ Tighten
    \/ BranchStep
    \/ Explain

Spec == Init /\ [][Next]_vars

(***************************************************************************)
(* The solver on chosen inputs: the host asserts the terms and the bounds  *)
(* of one input, in its order, and calls check() once.  An input is a      *)
(* sequence of host operations [op, t] (add the term t) and [op, j, kind,  *)
(* v] (assert a bound of column j); "I" in the script is the next of them. *)
(***************************************************************************)
\* the coefficients of the input terms are at most MaxCoef
MaxCoef == 5
\* the value a term column is fixed at is at most MaxConst in absolute value
MaxConst == 7
\* the bounds of the tightened column are 0..MaxInputBound
MaxInputBound == 10
\* the constant the substituted term is shifted by is 0..MaxShift
MaxShift == 1

TermOp(t) == [op |-> "term", t |-> t, j |-> 0, kind |-> "EQ", v |-> Zero]
BoundOp(j, kind, v) == [op |-> "bound", t |-> EmptyVec, j |-> j, kind |-> kind, v |-> I2Q(v)]

\* the coefficients of the rows: 2..MaxCoef, of either sign
RowCoefs == {a \in (-MaxCoef)..MaxCoef : a < -1 \/ a > 1}
\* one row a*x + b*y + c = 0 without a unit coefficient: the term a*x + b*y
\* with its column fixed at -c
RowInputs ==
    { << TermOp((1 :> I2Q(a)) @@ (2 :> I2Q(b))), BoundOp(NV + 1, "EQ", -c) >>
        : a \in RowCoefs, b \in RowCoefs, c \in (-MaxConst)..MaxConst }

\* x = g*y + c through the term x - g*y fixed at c, and the term x whose
\* column has the bounds lo and hi, or one of them
TightInputs ==
    UNION { UNION {
        { << TermOp((1 :> One) @@ (2 :> I2Q(-g))), BoundOp(NV + 1, "EQ", c),
             TermOp(1 :> One), BoundOp(NV + 2, "LE", hi), BoundOp(NV + 2, "GE", lo) >>
            : lo \in 0..(hi - 1) }
        \cup { << TermOp((1 :> One) @@ (2 :> I2Q(-g))), BoundOp(NV + 1, "EQ", c),
                  TermOp(1 :> One), BoundOp(NV + 2, "LE", hi) >>,
               << TermOp((1 :> One) @@ (2 :> I2Q(-g))), BoundOp(NV + 1, "EQ", c),
                  TermOp(1 :> One), BoundOp(NV + 2, "GE", hi) >> }
        : hi \in 0..MaxInputBound } : g \in 1..MaxCoef, c \in 0..MaxShift }

Inputs == RowInputs \cup TightInputs

InitInputs ==
    /\ \E input \in Inputs :
          InitWith([i \in 1..Len(input) |-> "I"] \o <<"C">>, input)
    /\ xpto = XptoNew(NoGoal)
    /\ scan = NoScan

\* the host adds the term of the next input operation
HostAssertTerm ==
    /\ At("done") /\ Todo("I") /\ Head(hist.input).op = "term"
    /\ LET j == column_count(lra) + 1
           h == [lra EXCEPT !.terms = Append(@, Head(hist.input).t)]
       IN  Set([HostOp(add_term_callback([S EXCEPT !.lra = h], j), "term")
                   EXCEPT !.hist.input = Tail(@)])
    /\ ret' = "none" /\ UNCHANGED pc

\* the host asserts the bound of the next input operation
HostAssertBound ==
    /\ At("done") /\ Todo("I") /\ Head(hist.input).op = "bound"
    /\ LET b == Head(hist.input)
       IN  Set([HostOp(update_column_type_and_bound(S, b.j, b.kind, b.v), "bound")
                   EXCEPT !.hist.input = Tail(@)])
    /\ ret' = "none" /\ UNCHANGED pc

NextInputs ==
    \/ HostAssertTerm
    \/ HostAssertBound
    \/ CheckBegin
    \/ ProcessFStep
    \/ Tighten
    \/ BranchStep
    \/ Explain

SpecInputs == InitInputs /\ [][NextInputs]_vars

(***************************************************************************)
(* Inputs whose rows are empty from the start or become empty in the       *)
(* rewrite step: terms over fixed variables with a fixed column, and a     *)
(* term with its double, both columns fixed.  The fixings need not agree.  *)
(***************************************************************************)
MaxFixed == 2
FixedTerms == {(1 :> I2Q(a)) @@ (2 :> I2Q(b)) : a \in 1..2, b \in 1..2}
FixedInputs ==
    { << TermOp(t), BoundOp(1, "EQ", u), BoundOp(2, "EQ", v), BoundOp(NV + 1, "EQ", w) >>
        : t \in FixedTerms, u \in 0..1, v \in 0..1, w \in 0..MaxFixed }
    \cup UNION {
       { << TermOp(t), TermOp((1 :> One) @@ (2 :> I2Q(3))),
            BoundOp(1, "EQ", u), BoundOp(2, "EQ", u), BoundOp(NV + 1, "EQ", w) >>,
         << TermOp(t), TermOp((1 :> One) @@ (2 :> I2Q(3))),
            BoundOp(1, "EQ", u), BoundOp(2, "EQ", u), BoundOp(NV + 1, "EQ", w),
            BoundOp(NV + 2, "EQ", 4 * u + 1) >>,
         << TermOp(t), TermOp(VScale(I2Q(2), t)),
            BoundOp(NV + 1, "EQ", u), BoundOp(NV + 2, "EQ", w) >> }
        : t \in FixedTerms, u \in 0..1, w \in 0..MaxFixed }

InitFixed ==
    /\ \E input \in Inputs \cup FixedInputs :
          InitWith([i \in 1..Len(input) |-> "I"] \o <<"C">>, input)
    /\ xpto = XptoNew(NoGoal)
    /\ scan = NoScan

NextFixed ==
    \/ HostAssertTerm
    \/ HostAssertBound
    \/ CheckBegin
    \/ CheckUnsolved
    \/ ProcessFStep
    \/ Tighten
    \/ BranchStep
    \/ Explain

SpecFixed == InitFixed /\ [][NextFixed]_vars

(***************************************************************************)
(* Hosts with columns that are not integer: terms that add_term_callback   *)
(* queues and terms it ignores, added, checked and removed again.          *)
(***************************************************************************)
TermScripts == { <<"V", "T", "T", "C", "C">>,
                 <<"T", "B1", "C", "C">>,
                 <<"T", "C", "P", "T", "O", "C">>,
                 <<"P", "T", "C", "O", "T", "C">>,
                 <<"T", "P", "T", "O", "C", "C">>,
                 <<"T", "C", "P", "V", "B1", "C", "O", "C">> }
RealSets == {{}, {1}, {NV + 1}, {2, NV + 2}}

InitTerms ==
    /\ \E script \in TermScripts, reals \in RealSets : InitWithReals(script, <<>>, reals)
    /\ xpto = XptoNew(NoGoal)
    /\ scan = NoScan

NextTerms ==
    \/ HostAddTerm
    \/ HostUpdateBound
    \/ HostPush
    \/ HostPop
    \/ CheckBegin
    \/ ProcessFStep
    \/ Tighten
    \/ BranchStep
    \/ Explain

SpecTerms == InitTerms /\ [][NextTerms]_vars

(***************************************************************************)
(* The specification of the xpto tactic: a tactic is made, given a goal    *)
(* and applied to it, once or again to the goal it returned; cleanup()     *)
(* replaces its tables by new ones.  The solver takes no step.             *)
(***************************************************************************)
InitXpto ==
    /\ InitWith(<<>>, <<>>)
    /\ xpto \in {XptoNew(g) : g \in Goals}
    /\ scan = NoScan

\* operator()(in, result)
XptoApply ==
    /\ xpto.calls < MaxApplications
    /\ xpto' \in xpto_apply(xpto)
    /\ UNCHANGED <<dio, lra, lia, pc, ret, hist, scan>>

\* cleanup(): a new imp takes the place of the old one
XptoCleanup ==
    /\ xpto.calls > 0
    /\ \E arr \in Arrays : xpto.m_arr2offsets[arr] # {} \/ xpto.m_arr2axioms[arr] # {}
    /\ xpto' = [xpto EXCEPT !.m_arr2offsets = [arr \in Arrays |-> {}],
                            !.m_arr2axioms = [arr \in Arrays |-> {}]]
    /\ UNCHANGED <<dio, lra, lia, pc, ret, hist, scan>>

NextXpto ==
    \/ XptoApply
    \/ XptoCleanup

SpecXpto == InitXpto /\ [][NextXpto]_vars

(***************************************************************************)
(* The properties of the solver.                                           *)
(***************************************************************************)
\* check() has just returned: no host operation has followed yet
AtReturn == At("done") /\ ret # "none"
\* control is between two steps of the rewrite loop or at a check boundary
Stable == At("done") \/ At("process_f") \/ At("tighten")
AllRows(d) == 1..Len(d.m_entries)

\* C1: at every return of check(), every row satisfies the entry invariant:
\* its E-row, translated to host columns, is its L-row opened through the
\* host's terms with the fixed columns replaced by their values
C1_EntryInvariantAtReturn ==
    AtReturn => \A i \in AllRows(dio) : entry_invariant(S, i)

\* C2: every bound the tightener pushes to the host is implied by the
\* host's terms and bounds: every integer solution satisfies it
C2_TighteningSound == hist.tight.sound

\* the substitution of k is a row that holds k with coefficient 1 or -1, and
\* no other row of status S holds k
SubstitutionUnique(d) ==
    \A k \in 1..Len(d.m_k2s) :
       d.m_k2s[k] # 0 =>
          /\ d.m_k2s[k] <= Len(d.m_e_matrix)
          /\ k \in DOMAIN d.m_e_matrix[d.m_k2s[k]]
          /\ RAbs(d.m_e_matrix[d.m_k2s[k]][k]) = One
          /\ \A i \in AllRows(d) :
                (i # d.m_k2s[k] /\ d.m_entries[i].m_entry_status = "S")
                   => k \notin DOMAIN d.m_e_matrix[i]

\* C3: between the steps of the rewrite loop and at the boundaries of check(),
\* every substituted variable k has its coefficient 1 or -1 in the row
\* m_k2s[k], and no other S-row holds k
C3_SubstitutionUnique == (At("done") \/ At("process_f")) => SubstitutionUnique(dio)

\* C4: at the boundaries of check(), m_f holds exactly the rows of status F,
\* m_s exactly the rows of status S, each once, and a row of status
\* NO_S_NO_F is in neither
C4_Partition ==
    At("done") =>
        /\ NoDup(dio.m_f) /\ NoDup(dio.m_s)
        /\ SeqSet(dio.m_f) = {i \in AllRows(dio) : dio.m_entries[i].m_entry_status = "F"}
        /\ SeqSet(dio.m_s) = {i \in AllRows(dio) : dio.m_entries[i].m_entry_status = "S"}

\* C5: when check() returns, every coefficient of every E-row and every
\* constant m_c is an integer, also in the rows recalculate_entry rebuilt
C5_Integral ==
    AtReturn =>
        \A i \in AllRows(dio) :
           /\ RIsInt(dio.m_entries[i].m_c)
           /\ \A j \in DOMAIN dio.m_e_matrix[i] : RIsInt(dio.m_e_matrix[i][j])

\* C6: when process_f has returned undef (control reaches the tightener), every
\* row of status F has coefficients of gcd 0 or 1, or the constant m_c = 0
C6_GcdFixpoint ==
    At("tighten") =>
        \A i \in AllRows(dio) :
           dio.m_entries[i].m_entry_status = "F" =>
              \/ gcd_of_coeffs(dio.m_e_matrix[i]) \in {Zero, One}
              \/ dio.m_entries[i].m_c = Zero

DataModelInvariants ==
    /\ \A i \in AllRows(dio) : entry_invariant(S, i)
    /\ SubstitutionUnique(dio)
    /\ \A i \in AllRows(dio) :
          /\ RIsInt(dio.m_entries[i].m_c)
          /\ \A j \in DOMAIN dio.m_e_matrix[i] : RIsInt(dio.m_e_matrix[i][j])
    /\ NoDup(dio.m_f) /\ NoDup(dio.m_s)
    /\ SeqSet(dio.m_f) = {i \in AllRows(dio) : dio.m_entries[i].m_entry_status = "F"}
    /\ SeqSet(dio.m_s) = {i \in AllRows(dio) : dio.m_entries[i].m_entry_status = "S"}

\* C8: after assert T1, check, push, assert T2, check, pop, the processing
\* that follows the pop ends (hist.scenario = 6 while it runs, 7 when it has
\* returned) with the rows, constants, statuses and substitutions of the
\* first check, whatever their numbering, and with the invariants of the
\* data model
C8_UndoConsistent ==
    /\ hist.scenario = 6 => ~At("abort")
    /\ hist.scenario = 7 => (RowStore(dio) = hist.first /\ DataModelInvariants)

C10_GcdConflict ==
    hist.gcd # NoGcd =>
        /\ AtReturn /\ ret = "conflict"
        /\ dio.m_conflict_index = hist.gcd.i
        /\ Rows(dio) = hist.gcd.rows
        /\ hist.ran \subseteq {"init", "process_f"}

C10_Witness == hist.gcd # NoGcd /\ AtReturn /\ lra.stats.m_dio_normalize_conflicts > 0

\* row i is one normalize-by-gcd refuses: g > 1 and c / g is no integer
GcdRefuses(d, i) ==
    /\ i \in 1..Len(d.m_entries)
    /\ gcd_of_coeffs(d.m_e_matrix[i]) \notin {Zero, One}
    /\ ~RIsInt(RDiv(d.m_entries[i].m_c, gcd_of_coeffs(d.m_e_matrix[i])))
\* the cut of row i: sum of (E[i][k] / g) * ext(k)
CutTerm(d, i) ==
    [j \in {local_to_lar_solver(d, k) : k \in DOMAIN d.m_e_matrix[i]} |->
        RDiv(d.m_e_matrix[i][lar_solver_to_local(d, j)], gcd_of_coeffs(d.m_e_matrix[i]))]
CutTrigger(d, i) ==
    /\ lra.stats.m_dio_calls % dio_cut_from_proof_period = 0
    /\ ~has_fresh_var(d, i)

\* C11: check() returns branch exactly when normalize-by-gcd fails on a row i
\* of m_f (g > 1, c_i / g not an integer) that holds no fresh variable while
\* m_dio_calls is a multiple of dio_cut_from_proof_period; the pending cut is
\* then the term sum of (E[i][j] / g) * ext(j) with offset floor(-c_i / g) and
\* is_upper true, m_dio_cut_from_proofs has grown by one and
\* m_dio_normalize_conflicts has not; a normalize failure without the trigger
\* is a conflict and counts as a normalize conflict.
C11_CutFromProof ==
    AtReturn =>
       LET i == dio.m_conflict_index
           now == lra.stats
           was == hist.entry.stats
       IN  /\ ret = "branch" =>
                /\ GcdRefuses(dio, i) /\ CutTrigger(dio, i)
                /\ dio.m_entries[i].m_entry_status = "F"
                /\ lia.term = CutTerm(dio, i)
                /\ lia.offset = RFloor(RNeg(RDiv(dio.m_entries[i].m_c,
                                                 gcd_of_coeffs(dio.m_e_matrix[i]))))
                /\ lia.is_upper
                /\ now.m_dio_cut_from_proofs = was.m_dio_cut_from_proofs + 1
                /\ now.m_dio_normalize_conflicts = was.m_dio_normalize_conflicts
           /\ ret # "branch" => now.m_dio_cut_from_proofs = was.m_dio_cut_from_proofs
           /\ now.m_dio_normalize_conflicts # was.m_dio_normalize_conflicts =>
                /\ ret = "conflict"
                /\ now.m_dio_normalize_conflicts = was.m_dio_normalize_conflicts + 1
                /\ GcdRefuses(dio, i) /\ ~CutTrigger(dio, i)
           /\ (ret = "conflict" /\ hist.ran \subseteq {"init", "process_f"}
                 /\ GcdRefuses(dio, i) /\ dio.m_entries[i].m_entry_status = "F"
                 /\ i \in SeqSet(dio.m_f)) => ~CutTrigger(dio, i)
\* a check returned branch, its first cut from a proof pending
C11_Witness ==
    /\ AtReturn /\ ret = "branch"
    /\ lra.stats.m_dio_cut_from_proofs = 1
    /\ lia.term # EmptyVec

\* the conflict of the check that just returned was recorded on a row: it
\* came out of normalize-by-gcd or out of the rewrite step
ConflictOnRow == hist.ran \subseteq {"init", "process_f"}
\* the fixed columns of the L-row opened: sum of ml[k] * (host_term(k) - k)
FixedInOpened(ml) ==
    LET opened(j) ==
           RSum([k \in DOMAIN ml |->
                    RMul(ml[k], RSub(Coef(get_term(lra, k), j),
                                     IF j = k THEN One ELSE Zero))], DOMAIN ml)
    IN  {j \in Cols(lra) : opened(j) # Zero /\ column_is_fixed(lra, j)}

\* C12: explain() after a check that returned conflict.  If the conflict was
\* recorded on a row, the explanation is exactly the bound witnesses of the
\* fixed columns of L[m_conflict_index] opened, the sum of
\* L[i][k] * (host_term(k) - k): fixed variables of the host terms and fixed
\* term columns.  Otherwise m_conflict_index is unset and the explanation is
\* exactly the stored infeasibility explanation.  While a check runs and has
\* found no conflict, the conflict index is unset, and the stored explanation
\* is empty until the tightener runs.
C12_Explain ==
    /\ (At("done") /\ ret = "conflict" /\ hist.explained) =>
          IF ConflictOnRow
          THEN /\ dio.m_conflict_index \in 1..Len(dio.m_l_matrix)
               /\ lia.ex = FixedInOpened(dio.m_l_matrix[dio.m_conflict_index])
          ELSE /\ dio.m_conflict_index = 0
               /\ lia.ex = dio.m_infeas_explanation
    /\ (At("process_f") \/ At("tighten") \/ At("branch")) => dio.m_conflict_index = 0
    /\ (At("process_f") \/ At("tighten")) => dio.m_infeas_explanation = {}
\* explain() ran after a conflict recorded on a row, in a check that follows
\* an earlier check
C12_Witness ==
    /\ At("done") /\ ret = "conflict" /\ hist.explained /\ ConflictOnRow
    /\ lia.ex # {}
    /\ lra.stats.m_dio_calls > 1

\* the cancel flag went up while check() was in its rewrite, tighten or branch
\* phase, and check() has returned since
CancelledInCheck ==
    AtReturn /\ lra.cancel /\ hist.entry.cancel \in {"process_f", "tighten", "branch"}

\* C13: a check() during which the host raised the cancel flag, in the
\* rewrite, tighten or branch phase, returns undef: never sat, conflict or
\* branch.
C13_CancelledIsUndef == CancelledInCheck => ret = "undef"
\* C13, the second half: the rows, entries and substitution map a cancelled
\* check() leaves satisfy the invariants of the data model.
C13_CancelledKeepsInvariants == CancelledInCheck => DataModelInvariants

\* the iterations the branching loop of the running check() has performed
BranchIterations ==
    lra.stats.m_dio_branch_iterations - hist.entry.stats.m_dio_branch_iterations
\* what max(5, n / 2) is
HalvedBudget(n) == IF n \div 2 > 5 THEN n \div 2 ELSE 5
BudgetInvariant ==
    /\ dio.m_max_number_of_iterations >= 5
    /\ dio.m_max_number_of_iterations <= 100
    /\ (At("branch") \/ AtReturn) =>
          /\ BranchIterations <= hist.entry.max_iter
          /\ dio.m_number_of_iterations <= hist.entry.max_iter
    /\ AtReturn =>
          dio.m_max_number_of_iterations =
             IF ret = "undef" THEN HalvedBudget(hist.entry.max_iter)
             ELSE hist.entry.max_iter

\* C14: the branching loop of one check() performs at most max_iter
\* iterations; max_iter is 100 after construction, becomes max(5, max_iter / 2)
\* exactly in the step in which a check ends with undef from the brancher, is
\* what it was when a check returns sat, conflict or branch, never increases
\* and is never below 5.
C14_IterationBudget ==
    /\ dio.m_max_number_of_iterations = 100
    /\ [][/\ BudgetInvariant'
          /\ dio'.m_max_number_of_iterations <= dio.m_max_number_of_iterations
          /\ (At("branch") /\ pc'.loc = "done" /\ ret' = "undef") =>
                dio'.m_max_number_of_iterations =
                   HalvedBudget(dio.m_max_number_of_iterations)
          /\ ~(At("branch") /\ pc'.loc = "done" /\ ret' = "undef") =>
                dio'.m_max_number_of_iterations = dio.m_max_number_of_iterations]_vars
\* a check entered with a budget of 6 ended with undef: the budget is 5, not 3
C14_Witness ==
    /\ AtReturn /\ ret = "undef"
    /\ hist.entry.max_iter = 6 /\ dio.m_max_number_of_iterations = 5
\* with a budget of 5 the loop stopped after its fourth iteration, no
\* cancellation involved
C14_WitnessExhausted ==
    /\ AtReturn /\ ret = "undef" /\ ~lra.cancel
    /\ hist.entry.max_iter = 5 /\ BranchIterations = 4

\* C15: whenever check() returns, with any verdict, the queue of added terms
\* (m_added_terms) and the set of changed columns (m_changed_columns) are
\* both empty.
C15_QueuesDrained ==
    AtReturn => (dio.m_added_terms = <<>> /\ dio.m_changed_columns = {})
\* the check that returned pushed no bound of its own: the tightener tightened
\* nothing and the brancher did not run
NoBoundPushed == "branch" \notin hist.ran /\ hist.tight.n = 0
\* C15, amended: whenever check() returns, m_added_terms is empty;
\* m_changed_columns is empty when the check pushed no bound of its own, and
\* holds integer columns only.
C15_QueuesDrainedUnlessPushed ==
    AtReturn =>
       /\ dio.m_added_terms = <<>>
       /\ NoBoundPushed => dio.m_changed_columns = {}
       /\ \A j \in dio.m_changed_columns : column_is_int(lra, j)
\* a check that found both queues filled returned without pushing a bound
C15_Witness ==
    /\ AtReturn /\ hist.entry.queued /\ NoBoundPushed
    /\ Len(dio.m_entries) > 0

\* what the callbacks are said to leave alone: the E-matrix, the L-matrix, the
\* entry table, the lists F and S, the substitution map and the fresh
\* definitions
StoreOf(d) == <<d.m_e_matrix, d.m_l_matrix, d.m_entries, d.m_f, d.m_s, d.m_k2s,
                d.m_fresh_definitions>>
\* a step outside check(): an operation of the host, with the callbacks it fires
OutsideCheck == At("done") /\ pc'.loc = "done"

\* C16: the host callbacks add_term, remove_term and update_column_bound only
\* enqueue work; the E-matrix, the L-matrix, the entry table, the lists F and
\* S, the substitution map and the fresh definitions change only inside
\* check().
C16_CallbacksOnlyEnqueue == [][OutsideCheck => StoreOf(dio)' = StoreOf(dio)]_vars
\* C16, amended: add_term and update_column_bound, and remove_term of a term
\* that was never activated, change the queues only; outside check() the row
\* store changes only when remove_term takes an activated term away, and no
\* column leaves m_changed_columns.
C16_OnlyRemovalOfActiveTermMutates ==
    [][OutsideCheck =>
          /\ dio'.m_active_terms = dio.m_active_terms => StoreOf(dio)' = StoreOf(dio)
          /\ dio'.m_active_terms \subseteq dio.m_active_terms
          /\ dio.m_changed_columns \subseteq dio'.m_changed_columns]_vars
\* after a check that left rows, the host has added a term and fixed a column:
\* both are queued
C16_Witness ==
    /\ At("done") /\ ret = "none" /\ lra.stats.m_dio_calls > 0
    /\ Len(dio.m_entries) > 0
    /\ dio.m_added_terms # <<>> /\ dio.m_changed_columns # {}
    /\ \E i \in AllRows(dio) : dio.m_entries[i].m_entry_status = "S"

\* the fresh-definition record of xt names an existing row that holds xt with
\* coefficient -1
DefinedFresh(d, xt) ==
    /\ xt <= Len(d.m_fresh_definitions)
    /\ d.m_fresh_definitions[xt].m_ei \in 1..Len(d.m_entries)
    /\ xt \in DOMAIN d.m_e_matrix[d.m_fresh_definitions[xt].m_ei]
    /\ d.m_e_matrix[d.m_fresh_definitions[xt].m_ei][xt] = MinusOne

\* C17: in every state, for every fresh local variable xt that occurs in some
\* E-row, the fresh-definition record of xt names an existing row, and that
\* row's E-row holds xt with coefficient -1; also after rows were removed by
\* remove_term or by process_changed_columns.
C17_FreshDefinition ==
    ~At("abort") =>
       \A i \in AllRows(dio) : \A xt \in DOMAIN dio.m_e_matrix[i] :
          is_fresh_var(dio, xt) => DefinedFresh(dio, xt)

\* the term columns tighten_terms_with_S visits, and the first of them whose
\* queue of variables to substitute is not empty
TightenedColumns ==
    {j \in 1..column_count(lra) :
        /\ column_has_term(lra, j) /\ ~column_is_free(lra, j)
        /\ ~is_fixed(S, j) /\ column_is_int(lra, j)
        /\ all_vars_are_int(lra, get_term(lra, j))
        /\ substituted_columns(S, get_term(lra, j)) # <<>>}
\* the row through which the tightener makes its first substitution: the one
\* m_k2s gives for the front of the queue of the first column it visits
FirstSubstitutionRow ==
    dio.m_k2s[Head(local_ids(dio,
                 substituted_columns(S, get_term(lra, SetMin(TightenedColumns)))))]

\* C18, the first half: for every k with m_k2s[k] = i the row i has status S.
C18_SubstitutionRowsHaveStatusS ==
    Stable =>
       \A k \in 1..Len(dio.m_k2s) :
          dio.m_k2s[k] \in AllRows(dio) => dio.m_entries[dio.m_k2s[k]].m_entry_status = "S"
\* C18: whenever the tightener substitutes a variable k through row m_k2s[k],
\* that row has status S: the assertion of subs_front_in_indexed_vector holds
\* at the first substitution of a run of the tightener, also when m_k2s[k] was
\* set by a fresh-variable step.
C18_SubstitutionAssertion ==
    (At("tighten") /\ TightenedColumns # {} /\ FirstSubstitutionRow \in AllRows(dio)) =>
        dio.m_entries[FirstSubstitutionRow].m_entry_status = "S"

\* the host asserted 3x + 5y + 7 = 0 (the term 3x + 5y, its column fixed at
\* -7) and the first fresh-variable step of check() has just run: there are
\* two rows
AfterFreshStepOf357 ==
    /\ lra.terms = << (1 :> I2Q(3)) @@ (2 :> I2Q(5)) >>
    /\ column_is_fixed(lra, NV + 1) /\ get_lower_bound(lra, NV + 1) = I2Q(-7)
    /\ Len(dio.m_entries) = 2
\* row i is a*x + b*y + t*xt + c = 0, xt the first fresh variable
RowIs(i, a, b, t, c) ==
    /\ Coef(dio.m_e_matrix[i], lar_solver_to_local(dio, 1)) = I2Q(a)
    /\ Coef(dio.m_e_matrix[i], lar_solver_to_local(dio, 2)) = I2Q(b)
    /\ Coef(dio.m_e_matrix[i], NV + 1) = I2Q(t)
    /\ is_fresh_var(dio, NV + 1)
    /\ DOMAIN dio.m_e_matrix[i] \subseteq
          {lar_solver_to_local(dio, 1), lar_solver_to_local(dio, 2), NV + 1}
    /\ dio.m_entries[i].m_c = I2Q(c)

\* C19 as stated: for the single row 3x + 5y + 7 = 0 the fresh-variable step
\* creates the row -xt + x + 2y + 2 = 0 and rewrites row h to
\* 3*xt + 2y + 1 = 0.
C19_FreshStepAsStated ==
    AfterFreshStepOf357 => (RowIs(2, 1, 2, -1, 2) /\ RowIs(1, 0, 2, 3, 1))
\* C19, amended: for the single row 3x + 5y + 7 = 0 (minimum |coefficient| 3
\* on x; 5 = 1*3 + 2, 7 = 2*3 + 1) the fresh-variable step creates the row
\* -xt + x + y + 2 = 0, of status NO_S_NO_F and recorded as the definition of
\* xt and as the substitution of x, and rewrites row h to 3*xt + 2y + 1 = 0.
C19_FreshStep ==
    AfterFreshStepOf357 =>
       /\ RowIs(2, 1, 1, -1, 2) /\ RowIs(1, 0, 2, 3, 1)
       /\ dio.m_entries[2].m_entry_status = "NO_S_NO_F"
       /\ dio.m_entries[1].m_entry_status = "F"
       /\ dio.m_k2s[lar_solver_to_local(dio, 1)] = 2
       /\ dio.m_fresh_definitions[NV + 1] = [m_ei |-> 2, m_origin |-> 1]
\* the step has run on 3x + 5y + 7 = 0: row h is still to be rewritten
C19_Witness == AfterFreshStepOf357 /\ At("process_f") /\ dio.m_f = <<1>>

\* The input is x = g*y + c (the term x - g*y fixed at c) with the bounds of
\* the column of the term x: what the host was given.
GivenTight == Len(hist.given) >= 4
GivenG == RNeg(hist.given[1].t[2])
GivenC == hist.given[2].v
GivenBound(kind) ==
    LET at == {n \in 4..Len(hist.given) : hist.given[n].kind = kind}
    IN  IF at = {} THEN NoBound ELSE Bnd(hist.given[SetMin(at)].v)
\* the bound the tightening formula gives for the host bound b
\* with residual gcd g and constant c: g * floor((rs - c) / g) + c for an upper
\* bound, ceil for a lower one, when (rs - c) / g is no integer and g > 1
Tightened(b, g, c, upper) ==
    LET q == RDiv(RSub(b.v, c), g)
    IN  IF ~b.has \/ g = One \/ RIsInt(q) THEN b
        ELSE Bnd(RAdd(RMul(g, I2Q(IF upper THEN RFloor(q) ELSE RCeil(q))), c))
\* the tightener has just run, for the only time in this check
JustTightened ==
    /\ "tighten" \in hist.ran /\ "branch" \notin hist.ran
    /\ At("branch") \/ (AtReturn /\ ret = "conflict")

C20_WitnessUnchanged ==
    /\ GivenTight /\ JustTightened
    /\ GivenG = I2Q(5) /\ GivenC = Zero /\ GivenBound("LE") = Bnd(I2Q(10))
    /\ ~GivenBound("GE").has
    /\ lra.upper[NV + 2] = Bnd(I2Q(10)) /\ hist.tight.n = 0

\* The thread that called check() keeps running: a round of the loop of
\* process_f that can be taken is taken, and the caller asks for the
\* explanation of a conflict check() returned.  The fairness of the rounds is
\* weak fairness of ProcessFStep with its enabling condition written out: a
\* round can be taken exactly when control is in the loop.
ProcessFRuns == []<>(~At("process_f")) \/ []<><<ProcessFStep>>_vars
SpecInputsLive == SpecInputs /\ ProcessFRuns /\ WF_vars(Explain)

\* the cells of a row whose coefficient is below a in absolute value
CellsBelow(row, a) == {j \in DOMAIN row : RLess(RAbs(row[j]), a)}
\* the least absolute value of the coefficients of a non-empty row
MinAbsCoeff(row) ==
    LET j == CHOOSE j \in DOMAIN row : CellsBelow(row, RAbs(row[j])) = {}
    IN  RAbs(row[j])
\* this round of process_f is a fresh-variable step: a row was appended
FreshStepTaken == At("process_f") /\ Len(dio'.m_entries) = Len(dio.m_entries) + 1
\* the row the round worked on: the origin of the definition it recorded
FreshStepRow == dio'.m_fresh_definitions[Len(dio'.m_var_register)].m_origin

(***************************************************************************)
(* The specification of find_minimal_abs_coeff as a function of a stored   *)
(* row: a non-empty row of up to MaxScanVars cells with distinct variables *)
(* and integer coefficients up to MaxScanCoef in absolute value, in any    *)
(* storage order, is scanned once.                                         *)
(***************************************************************************)
MaxScanVars == 3
MaxScanCoef == 3
ScanCells == [var : 1..MaxScanVars,
              coeff : {I2Q(a) : a \in ((-MaxScanCoef)..MaxScanCoef) \ {0}}]
StoredRows ==
    {cells \in UNION {[1..n -> ScanCells] : n \in 1..MaxScanVars} :
        \A i, j \in DOMAIN cells : i # j => cells[i].var # cells[j].var}

InitScan ==
    /\ InitWith(<<>>, <<>>)
    /\ xpto = XptoNew(NoGoal)
    /\ scan \in {[cells |-> cells, out |-> NoPivot] : cells \in StoredRows}

\* find_minimal_abs_coeff(ei) on the stored row
FindMinimalAbsCoeff ==
    /\ scan.cells # <<>> /\ scan.out = NoPivot
    /\ scan' = [scan EXCEPT !.out = scan_cells(scan.cells)]
    /\ UNCHANGED <<dio, lra, lia, pc, ret, hist, xpto>>

NextScan == FindMinimalAbsCoeff

SpecScan == InitScan /\ [][NextScan]_vars

\* C21: process_f terminates: control does not stay in its loop for ever; and
\* a fresh-variable step on a row h of F leaves h in F with a least absolute
\* coefficient below the one it had, so that the pair (number of F-rows,
\* least absolute coefficient of the processed row) has decreased when the
\* step ends.
C21_RewriteTerminates ==
    /\ At("process_f") ~> ~At("process_f")
    /\ [][FreshStepTaken =>
            /\ FreshStepRow \in SeqSet(dio.m_f)
            /\ Len(dio'.m_f) <= Len(dio.m_f)
            /\ CellsBelow(dio'.m_e_matrix[FreshStepRow],
                          MinAbsCoeff(dio.m_e_matrix[FreshStepRow])) # {}]_vars
\* a fresh-variable step has run and the loop of process_f has ended since
C21_Witness ==
    /\ ~At("process_f") /\ "process_f" \in hist.ran
    /\ \E xt \in 1..Len(dio.m_var_register) : is_fresh_var(dio, xt)
    /\ Len(dio.m_fresh_definitions) > 0

\* this step is an application of the tactic to a goal that asks for proofs
\* or for an unsat core
RefusedApplication ==
    /\ xpto'.calls = xpto.calls + 1
    /\ xpto.g.proofs_enabled \/ xpto.g.unsat_core_enabled

\* C22: applied to a goal with proof generation or unsat-core generation
\* enabled, the xpto tactic throws a tactic exception; its tables
\* m_arr2offsets and m_arr2axioms are as before the call (nothing was
\* collected), the goal is unchanged and the result buffer gets no goal.
C22_NoProofsNoCores ==
    [][RefusedApplication =>
          /\ xpto'.thrown # "none"
          /\ xpto'.g = xpto.g
          /\ xpto'.m_arr2offsets = xpto.m_arr2offsets
          /\ xpto'.m_arr2axioms = xpto.m_arr2axioms
          /\ xpto'.result = <<>>]_vars
\* the tactic has refused a goal it would have changed: the goal holds an
\* axiom of an array and a read of that array
C22_Witness ==
    /\ xpto.calls = 1 /\ xpto.thrown # "none"
    /\ xpto.g.unsat_core_enabled /\ ~xpto.g.proofs_enabled
    /\ xpto.g.forms = <<Axiom("a"), Read("a", "i")>>

\* the phases of check() that have run when control is in the loop of
\* process_f, at the tightener, in the loop of the brancher
PhaseOrder ==
    /\ ~At("done") /\ ~At("abort") =>
          /\ "init" \in hist.ran
          /\ dio.m_added_terms = <<>>
    /\ At("process_f") =>
          /\ hist.ran \subseteq {"init", "process_f"}
          /\ dio.m_changed_columns = {}
          /\ dio.m_f # <<>>
    /\ At("tighten") =>
          /\ hist.ran \subseteq {"init", "process_f"}
          /\ dio.m_f = <<>>
          /\ dio.m_conflict_index = 0
    /\ At("branch") =>
          /\ "tighten" \in hist.ran
          /\ lra.stats.m_dio_tighten_conflicts = hist.entry.stats.m_dio_tighten_conflicts
\* this step ends check() from the phase loc
ReturnsFrom(loc) == At(loc) /\ pc'.loc = "done"

\* C23: the phases of check() run in order.  The changed columns are
\* processed and the pending terms are rows before a rewrite step; the
\* tightener runs with an empty F-list and no conflict row; the brancher is
\* entered from the tightener only, and only if the tightener found no
\* conflict; a verdict of process_f (conflict or branch) or of the tightener
\* (conflict) ends check() before a later phase has run.
C23_PhaseOrder ==
    /\ []PhaseOrder
    /\ [][/\ ReturnsFrom("process_f") =>
                /\ ret' \in {"conflict", "branch"}
                /\ hist'.ran = {"init", "process_f"}
          /\ ReturnsFrom("tighten") =>
                /\ ret' = "conflict"
                /\ hist'.ran \in {{"init", "tighten"}, {"init", "process_f", "tighten"}}
          /\ pc'.loc = "process_f" => At("process_f") \/ At("done")
          /\ pc'.loc = "tighten" => At("tighten") \/ At("process_f") \/ At("done")
          /\ pc'.loc = "branch" => At("branch") \/ At("tighten")]_vars
\* check() returned the conflict of the tightener; the brancher has not run
C23_Witness ==
    /\ At("done") /\ ret = "conflict"
    /\ "tighten" \in hist.ran /\ "branch" \notin hist.ran
    /\ lra.stats.m_dio_tighten_conflicts = hist.entry.stats.m_dio_tighten_conflicts + 1
\* the brancher runs after rewrite steps and the tightener
C23_WitnessBranch == At("branch") /\ hist.ran = {"init", "process_f", "tighten", "branch"}

\* row i after normalize_e_by_gcd is row i before it with the coefficients of
\* the E-row and of the L-row and the constant divided by g
DividedBy(d, e, i, g) ==
    /\ DOMAIN e.m_e_matrix[i] = DOMAIN d.m_e_matrix[i]
    /\ \A j \in DOMAIN d.m_e_matrix[i] :
          e.m_e_matrix[i][j] = RDiv(d.m_e_matrix[i][j], g)
    /\ DOMAIN e.m_l_matrix[i] = DOMAIN d.m_l_matrix[i]
    /\ \A j \in DOMAIN d.m_l_matrix[i] :
          e.m_l_matrix[i][j] = RDiv(d.m_l_matrix[i][j], g)
    /\ e.m_entries[i].m_c = RDiv(d.m_entries[i].m_c, g)
    /\ e.m_entries[i].m_entry_status = d.m_entries[i].m_entry_status
\* e is d but for row i
OnlyRowChanged(d, e, i) ==
    /\ Len(e.m_entries) = Len(d.m_entries)
    /\ \A k \in AllRows(d) \ {i} :
          /\ e.m_e_matrix[k] = d.m_e_matrix[k]
          /\ e.m_l_matrix[k] = d.m_l_matrix[k]
          /\ e.m_entries[k] = d.m_entries[k]
    /\ [e EXCEPT !.m_e_matrix = d.m_e_matrix, !.m_l_matrix = d.m_l_matrix,
                 !.m_entries = d.m_entries] = d
\* the gcd of the coefficients of row i divides its constant
GcdDivides(d, i) ==
    gcd_of_coeffs(d.m_e_matrix[i]) \notin {Zero, One}
    /\ RIsInt(RDiv(d.m_entries[i].m_c, gcd_of_coeffs(d.m_e_matrix[i])))

\* C24: normalize_e_by_gcd on a row i of F whose gcd g divides the constant,
\* in every state in which process_f calls it.  With g in {0, 1} it returns
\* true and changes nothing.  With g > 1 and g | c it returns true, every
\* coefficient of E[i] and of L[i] and the constant c_i are the old ones
\* divided by g, the gcd of the coefficients of E[i] is 1 afterwards, and no
\* other row and nothing else of the solver, the host or the cut is changed.
C24_NormalizeSuccess ==
    At("process_f") =>
       \A i \in SeqSet(dio.m_f) :
          LET g == gcd_of_coeffs(dio.m_e_matrix[i])
              r == normalize_e_by_gcd(S, i)
          IN  /\ g \in {Zero, One} => r.ok /\ r.s = S
              /\ GcdDivides(dio, i) =>
                    /\ r.ok
                    /\ DividedBy(dio, r.s.dio, i, g)
                    /\ gcd_of_coeffs(r.s.dio.m_e_matrix[i]) = One
                    /\ OnlyRowChanged(dio, r.s.dio, i)
                    /\ [r.s EXCEPT !.dio = dio] = S
\* process_f is about to normalize a row of two or more coefficients by its gcd,
\* which divides the constant
C24_Witness ==
    /\ At("process_f")
    /\ \E i \in SeqSet(dio.m_f) :
          /\ GcdDivides(dio, i)
          /\ Cardinality(DOMAIN dio.m_e_matrix[i]) >= 2
          /\ dio.m_entries[i].m_c # Zero

\* the rows as the round of process_f finds them once normalize_by_gcd has run
Normalized == normalize_by_gcd(S).s.dio
\* this round is a fresh-variable step, on the first non-empty row h of F
\* with the variable k that find_minimal_abs_coeff returns for it
FreshStepOn(h, k) ==
    /\ FreshStepTaken
    /\ h = first_nonempty(Normalized, Normalized.m_f).h
    /\ k \in find_minimal_abs_coeff(Normalized, h)

\* C25: a fresh-variable step on row h with the variable k of coefficient a
\* keeps the equation of row h: the old row is the new row plus a times the
\* fresh row fr, for the coefficients (b = q*a + r for every other variable,
\* a = 0 + a*1 for k, 0 = a - a for the fresh variable xt) and for the
\* constants (c_h = q_c*a + r_c).  The fresh row has status NO_S_NO_F and an
\* empty L-row, the L-row of h is unchanged, subst[k] = fr and
\* fresh_def[xt] = (fr, h).
C25_FreshStepKeepsEquation ==
    [][\A h \in AllRows(dio) : \A k \in 1..Len(dio.m_var_register) :
          FreshStepOn(h, k) =>
             LET a == Normalized.m_e_matrix[h][k]
                 fr == Len(dio'.m_entries)
                 xt == Len(dio'.m_var_register)
             IN  /\ fr = Len(dio.m_entries) + 1 /\ xt = Len(dio.m_var_register) + 1
                 /\ RLess(One, RAbs(a))
                 /\ VAdd(dio'.m_e_matrix[h], VScale(a, dio'.m_e_matrix[fr]))
                       = Normalized.m_e_matrix[h]
                 /\ RAdd(dio'.m_entries[h].m_c, RMul(a, dio'.m_entries[fr].m_c))
                       = Normalized.m_entries[h].m_c
                 /\ Coef(dio'.m_e_matrix[h], xt) = a
                 /\ Coef(dio'.m_e_matrix[fr], xt) = MinusOne
                 /\ Coef(dio'.m_e_matrix[fr], k) = One
                 /\ dio'.m_l_matrix[h] = Normalized.m_l_matrix[h]
                 /\ dio'.m_entries[fr].m_entry_status = "NO_S_NO_F"
                 /\ dio'.m_l_matrix[fr] = EmptyVec
                 /\ dio'.m_k2s[k] = fr
                 /\ dio'.m_fresh_definitions[xt] = [m_ei |-> fr, m_origin |-> h]]_vars
\* a fresh-variable step has split a row with a constant and a coefficient
\* that are not below the least coefficient: the fresh row has a constant and
\* two variables besides the fresh one
C25_Witness ==
    /\ "process_f" \in hist.ran /\ Len(dio.m_fresh_definitions) > 0
    /\ \E xt \in 1..Len(dio.m_fresh_definitions) :
          LET def == dio.m_fresh_definitions[xt]
          IN  /\ def.m_ei \in AllRows(dio) /\ def.m_origin \in AllRows(dio)
              /\ dio.m_entries[def.m_ei].m_entry_status = "NO_S_NO_F"
              /\ dio.m_entries[def.m_ei].m_c # Zero
              /\ Cardinality(DOMAIN dio.m_e_matrix[def.m_ei]) >= 3

\* r is what machine_div_rem leaves of b for the divisor a, with quotient q:
\* b = q*a + r, r is smaller than a in absolute value and is zero or has the
\* sign of b
TruncatedResidual(b, a, q, r) ==
    /\ b = RAdd(RMul(q, a), r)
    /\ RLess(RAbs(r), RAbs(a))
    /\ r = Zero \/ (RLess(r, Zero) <=> RLess(b, Zero))
\* r is a residual as stated: a is positive and 0 <= r < a
StatedResidual(a, r) == RLess(Zero, a) /\ ~RLess(r, Zero) /\ RLess(r, a)

\* C26 as stated: in every fresh-variable step the divisor a is positive and
\* every residual r left in row h, for the coefficients and for the constant,
\* satisfies 0 <= r < a.
C26_ResidualsAsStated ==
    [][\A h \in AllRows(dio) : \A k \in 1..Len(dio.m_var_register) :
          FreshStepOn(h, k) =>
             LET a == Normalized.m_e_matrix[h][k]
             IN  /\ \A j \in DOMAIN Normalized.m_e_matrix[h] \ {k} :
                       StatedResidual(a, Coef(dio'.m_e_matrix[h], j))
                 /\ StatedResidual(a, dio'.m_entries[h].m_c)]_vars

\* C26: in every fresh-variable step the divisor a is the coefficient of k
\* in row h with its sign, |a| > 1, and every residual r left in row h, for
\* a coefficient b or the constant c_h, is the remainder of the division
\* truncated towards zero: b = q*a + r with |r| < |a| and r zero or of the
\* sign of b, q being what the fresh row gets.
C26_Residuals ==
    [][\A h \in AllRows(dio) : \A k \in 1..Len(dio.m_var_register) :
          FreshStepOn(h, k) =>
             LET a == Normalized.m_e_matrix[h][k]
                 fr == Len(dio'.m_entries)
             IN  /\ RLess(One, RAbs(a))
                 /\ Coef(dio'.m_e_matrix[h], Len(dio'.m_var_register)) = a
                 /\ \A j \in DOMAIN Normalized.m_e_matrix[h] \ {k} :
                       TruncatedResidual(Normalized.m_e_matrix[h][j], a,
                                         Coef(dio'.m_e_matrix[fr], j),
                                         Coef(dio'.m_e_matrix[h], j))
                 /\ TruncatedResidual(Normalized.m_entries[h].m_c, a,
                                      dio'.m_entries[fr].m_c,
                                      dio'.m_entries[h].m_c)]_vars
\* a fresh-variable step with a negative divisor has left a negative
\* residual in the row it worked on: the row of the newest fresh variable
\* holds it with a negative coefficient, and a negative constant or another
\* negative coefficient
C26_Witness ==
    /\ At("process_f") /\ Len(dio.m_fresh_definitions) > 0
    /\ LET xt == Len(dio.m_var_register)
           h == dio.m_fresh_definitions[xt].m_origin
       IN  /\ xt = Len(dio.m_fresh_definitions)
           /\ dio.m_fresh_definitions[xt].m_ei = Len(dio.m_entries)
           /\ h \in AllRows(dio)
           /\ RLess(Coef(dio.m_e_matrix[h], xt), MinusOne)
           /\ \/ RLess(dio.m_entries[h].m_c, Zero)
              \/ \E j \in DOMAIN dio.m_e_matrix[h] \ {xt} : RLess(dio.m_e_matrix[h][j], Zero)

\* the row of the stored cells, and the variables of its least absolute
\* coefficient
ScanRow == [j \in {scan.cells[i].var : i \in DOMAIN scan.cells} |->
              (CHOOSE i \in DOMAIN scan.cells : scan.cells[i].var = j)]
ScanCoef(j) == scan.cells[ScanRow[j]].coeff
ScanLeast == {j \in DOMAIN ScanRow :
                \A i \in DOMAIN ScanRow : ~RLess(RAbs(ScanCoef(i)), RAbs(ScanCoef(j)))}

\* C27: for a non-empty row, find_minimal_abs_coeff returns the variable k
\* of the least absolute coefficient of the row, with that absolute value and
\* the sign of the coefficient, and among the variables of that least
\* absolute value the one with the smallest local id, whatever the storage
\* order of the cells.
C27_PivotChoice ==
    scan.out # NoPivot =>
       /\ scan.out.k \in ScanLeast
       /\ scan.out.ahk = RAbs(ScanCoef(scan.out.k))
       /\ scan.out.k_sign = (IF RLess(Zero, ScanCoef(scan.out.k)) THEN 1 ELSE -1)
       /\ scan.out.k = SetMin(ScanLeast)
\* what holds of the scan: the variable returned has the least absolute
\* coefficient; it is the smallest such variable if that coefficient is not
\* 1 or -1, and the first variable of a unit coefficient in the storage
\* order otherwise
PivotChoiceOfTheScan ==
    scan.out # NoPivot =>
       /\ scan.out.k \in ScanLeast
       /\ scan.out.ahk = RAbs(ScanCoef(scan.out.k))
       /\ scan.out.k_sign = (IF RLess(Zero, ScanCoef(scan.out.k)) THEN 1 ELSE -1)
       /\ scan.out.ahk # One => scan.out.k = SetMin(ScanLeast)
       /\ scan.out.ahk = One =>
             \A i \in 1..(ScanRow[scan.out.k] - 1) : RAbs(scan.cells[i].coeff) # One
\* the rewrite step's choice of the variable, which leaves the storage order
\* open, allows what the scan returns
PivotChoiceAllowed ==
    scan.out # NoPivot =>
       scan.out.k \in find_minimal_abs_coeff(
                         [m_e_matrix |-> <<[j \in DOMAIN ScanRow |-> ScanCoef(j)]>>], 1)

\* this round of process_f moves a row to S
PromotionTaken ==
    /\ At("process_f")
    /\ Len(dio'.m_s) = Len(dio.m_s) + 1
    /\ Len(dio'.m_entries) = Len(dio.m_entries)
\* row i after the elimination of k through row h, where k has the
\* coefficient s (1 or -1) in row h and c in row i
Eliminated(d, e, i, h, k, s, c) ==
    /\ e.m_e_matrix[i] = VAdd(d.m_e_matrix[i], VScale(RNeg(RMul(s, c)), d.m_e_matrix[h]))
    /\ e.m_l_matrix[i] = VAdd(d.m_l_matrix[i], VScale(RNeg(RMul(s, c)), d.m_l_matrix[h]))
    /\ e.m_entries[i].m_c = RSub(d.m_entries[i].m_c, RMul(RMul(s, c), d.m_entries[h].m_c))
    /\ e.m_entries[i].m_entry_status = "F"
\* row i is in e what it is in d
SameRow(d, e, i) ==
    /\ e.m_e_matrix[i] = d.m_e_matrix[i]
    /\ e.m_l_matrix[i] = d.m_l_matrix[i]
    /\ e.m_entries[i] = d.m_entries[i]

\* C28: when the least absolute coefficient of the first non-empty row h of
\* F is 1, on the variable k with the coefficient s, the round sets the
\* status of h to S and subst[k] = h and moves h from the F-list to the end of
\* the S-list, leaving the row itself as it is; every other row i of status F
\* that holds k, with coefficient c, becomes E[i] - s*c*E[h], L[i] - s*c*L[h],
\* c_i - s*c*c_h; every other row is unchanged, those of status S or
\* NO_S_NO_F among them; afterwards no row of status F holds k.
C28_PromotionAndElimination ==
    [][PromotionTaken =>
         LET d == Normalized
             fh == first_nonempty(d, d.m_f)
             h == fh.h
         IN  /\ h # 0
             /\ \E k \in find_minimal_abs_coeff(d, h) :
                  LET s == d.m_e_matrix[h][k]
                  IN  /\ RAbs(s) = One
                      /\ d.m_entries[h].m_entry_status = "F"
                      /\ dio'.m_entries[h].m_entry_status = "S"
                      /\ dio'.m_k2s[k] = h
                      /\ dio'.m_s = Append(d.m_s, h)
                      /\ dio'.m_f = SeqRemove(fh.f, h)
                      /\ dio'.m_e_matrix[h] = d.m_e_matrix[h]
                      /\ dio'.m_l_matrix[h] = d.m_l_matrix[h]
                      /\ dio'.m_entries[h].m_c = d.m_entries[h].m_c
                      /\ \A i \in AllRows(d) \ {h} :
                            IF d.m_entries[i].m_entry_status = "F"
                               /\ k \in DOMAIN d.m_e_matrix[i]
                            THEN Eliminated(d, dio', i, h, k, s, d.m_e_matrix[i][k])
                            ELSE SameRow(d, dio', i)
                      /\ \A i \in AllRows(dio') :
                            dio'.m_entries[i].m_entry_status = "F"
                               => k \notin DOMAIN dio'.m_e_matrix[i]]_vars
\* a row was moved to S and its variable eliminated from another row of
\* status F: that row's L-row combines two rows, and the variable is in no
\* row of status F
C28_Witness ==
    /\ "process_f" \in hist.ran
    /\ \E h \in SeqSet(dio.m_s) : \E k \in 1..Len(dio.m_k2s) :
          /\ dio.m_k2s[k] = h /\ h \in AllRows(dio)
          /\ RAbs(Coef(dio.m_e_matrix[h], k)) = One
          /\ \A i \in AllRows(dio) : dio.m_entries[i].m_entry_status = "F"
                                        => k \notin DOMAIN dio.m_e_matrix[i]
          /\ \E i \in AllRows(dio) \ {h} :
                /\ Cardinality(DOMAIN dio.m_l_matrix[i]) >= 2
                /\ DOMAIN dio.m_l_matrix[h] \subseteq DOMAIN dio.m_l_matrix[i]

\* row i is empty with the constant zero
EmptyZero(d, i) == d.m_e_matrix[i] = EmptyVec /\ d.m_entries[i].m_c = Zero
\* the position in the F-list at which the scan of rewrite_eqs stops: the
\* first row that is not an empty row with the constant zero (no position:
\* the scan runs through the list)
ScanStop(d) ==
    {p \in 1..Len(d.m_f) :
        /\ ~EmptyZero(d, d.m_f[p])
        /\ \A q \in 1..(p - 1) : EmptyZero(d, d.m_f[q])}
\* the rows the scan passes and erases from the F-list
ScanDropped(d) ==
    {d.m_f[q] : q \in {q \in 1..Len(d.m_f) : \A p \in ScanStop(d) : q < p}}

\* this step is a round of the loop of process_f
ProcessFRound == At("process_f") /\ (dio' # dio \/ pc' # pc)

C29_WitnessDropped ==
    /\ "process_f" \in hist.ran /\ dio.m_s # <<>>
    /\ \E i \in AllRows(dio) :
          /\ EmptyZero(dio, i) /\ dio.m_entries[i].m_entry_status = "F"
          /\ i \notin SeqSet(dio.m_f)

\* the term of column j passes the filter of add_term_callback
PassesFilter(h, j) == j \notin h.reals /\ (DOMAIN get_term(h, j)) \cap h.reals = {}
TermColumns(h) == {j \in Cols(h) : column_has_term(h, j)}
\* the solver holds nothing of the term of column j
LeftOut(d, j) ==
    /\ j \notin SeqSet(d.m_added_terms) /\ j \notin d.m_active_terms
    /\ MatColumn(d.m_l_matrix, j) = {}
    /\ \A c \in DOMAIN d.m_columns_to_terms : j \notin d.m_columns_to_terms[c]
\* the steps of the host and the entry of check()
TermAdded == Len(lra'.terms) = Len(lra.terms) + 1
TermsRemoved == Len(lra'.terms) < Len(lra.terms)
CheckEntered ==
    /\ At("done") /\ pc'.loc # "abort"
    /\ lra'.stats.m_dio_calls = lra.stats.m_dio_calls + 1
\* the row store when init() starts to add the queued terms
BeforeNewTerms == process_changed_columns([S EXCEPT !.lra = lra']).dio
\* row i is the row fill_entry makes of the term of column j
BornOf(i, j) ==
    LET t == ext_coeffs(lra', j)
        fx == {v \in DOMAIN t : column_is_fixed(lra', v)}
        row == dio'.m_e_matrix[i]
    IN  /\ dio'.m_entries[i].m_entry_status = "F"
        /\ dio'.m_l_matrix[i] = (j :> One)
        /\ dio'.m_entries[i].m_c = RSum([v \in fx |-> RMul(t[v], lra'.lower[v].v)], fx)
        /\ {local_to_lar_solver(dio', x) : x \in DOMAIN row} = (DOMAIN t) \ fx
        /\ Cardinality(DOMAIN row) = Cardinality((DOMAIN t) \ fx)
        /\ \A x \in DOMAIN row : row[x] = t[local_to_lar_solver(dio', x)]
        /\ MatColumn(dio'.m_l_matrix, j) = {i}
        /\ j \in dio'.m_active_terms

\* C30: add_term_callback queues the term iff its column and all its
\* variables are integer and changes nothing else; nothing of a term that
\* fails the filter is ever held by the solver, and the removal of such terms
\* leaves the solver as it was; a check() that is entered makes of the
\* queued terms, in their order, one new row each, after the rows it had:
\* status F, last in the F-list, L-row 1 * (term column), the fixed variables
\* folded into the constant at their bound, the others as E-coefficients.
C30_TermFilterAndRowBirth ==
    /\ [](\A j \in TermColumns(lra) : ~PassesFilter(lra, j) => LeftOut(dio, j))
    /\ [][TermAdded =>
            LET j == column_count(lra')
            IN  dio' = [dio EXCEPT !.m_added_terms =
                                      IF PassesFilter(lra', j) THEN Append(@, j) ELSE @]]_vars
    /\ [][TermsRemoved /\ (\A j \in TermColumns(lra) \ TermColumns(lra') : ~PassesFilter(lra, j))
            => [dio' EXCEPT !.m_changed_columns = {}] = [dio EXCEPT !.m_changed_columns = {}]]_vars
    /\ [][CheckEntered =>
            LET q == dio.m_added_terms
                n == Len(BeforeNewTerms.m_entries)
                m == Len(BeforeNewTerms.m_f)
            IN  /\ Len(dio'.m_entries) = n + Len(q)
                /\ dio'.m_added_terms = <<>>
                /\ dio'.m_f = BeforeNewTerms.m_f \o [p \in 1..Len(q) |-> n + p]
                /\ SubSeq(dio'.m_entries, 1, n) = BeforeNewTerms.m_entries
                /\ \A p \in 1..Len(q) : BornOf(n + p, q[p])]_vars
\* after a second check(): a term that failed the filter and has no row, next
\* to a term that has its row, with a fixed variable folded into the constant
C30_Witness ==
    /\ At("done") /\ ret # "none" /\ lra.stats.m_dio_calls = 2
    /\ \E j1, j2 \in TermColumns(lra) :
          /\ ~PassesFilter(lra, j1) /\ LeftOut(dio, j1)
          /\ PassesFilter(lra, j2) /\ j2 \in dio.m_active_terms
          /\ \E v \in DOMAIN get_term(lra, j2) :
                column_is_fixed(lra, v) /\ lra.lower[v].v # Zero

\* the term columns the host removes in this step
RemovedTerms == TermColumns(lra) \ TermColumns(lra')
Pending(d, j) == j \in SeqSet(d.m_added_terms) /\ j \notin d.m_active_terms
\* the solver but for the queue of the added terms and the set of the
\* changed columns
RowsAndIndexes(d) == [d EXCEPT !.m_added_terms = <<>>, !.m_changed_columns = {}]

\* C31: when the host removes terms that are queued and not activated, the
\* queue loses exactly these terms and keeps the others, and the rows, the
\* entries, the F-list and the S-list, the substitution map and the
\* column-to-terms index stay as they are; the queue holds only terms the
\* host has, and the rows a check() adds are those of the terms in the queue.
C31_RemovePending ==
    /\ [](SeqSet(dio.m_added_terms) \subseteq TermColumns(lra))
    /\ [][TermsRemoved /\ (\A j \in RemovedTerms : Pending(dio, j)) =>
            /\ SeqSet(dio'.m_added_terms) = SeqSet(dio.m_added_terms) \ RemovedTerms
            /\ Len(dio'.m_added_terms) = Len(dio.m_added_terms) - Cardinality(RemovedTerms)
            /\ RowsAndIndexes(dio') = RowsAndIndexes(dio)]_vars
    /\ [][CheckEntered =>
            \A i \in (Len(BeforeNewTerms.m_entries) + 1)..Len(dio'.m_entries) :
               \E j \in SeqSet(dio.m_added_terms) : dio'.m_l_matrix[i] = (j :> One)]_vars
\* the check() after the host added two terms and removed the second before
\* any check(): the first term has its row and is the only active term
C31_Witness ==
    /\ At("done") /\ ret # "none" /\ lra.stats.m_dio_calls = 1
    /\ hist.todo = <<"C">>
    /\ Len(lra.terms) = 1 /\ \A j \in Cols(lra) : column_is_free(lra, j)
    /\ dio.m_active_terms = {NV + 1}
    /\ MatColumn(dio.m_l_matrix, NV + 1) # {}

\* the host asserts a bound of column j, outside check()
HostBoundStep(j) ==
    /\ At("done") /\ pc'.loc = "done" /\ lra'.terms = lra.terms
    /\ Len(lra'.trail) >= Len(lra.trail)
    /\ lra'.lower[j] # lra.lower[j] \/ lra'.upper[j] # lra.upper[j]
\* the host pops a scope
HostPopStep == At("done") /\ Len(lra'.trail) < Len(lra.trail)
\* the trail entries a step adds
TrailAdded == SubSeq(lra'.trail, Len(lra.trail) + 1, Len(lra'.trail))
\* the L-row of row i of d holds a term of which column j is a part
LRowInvolves(d, h, i, j) ==
    \E t \in DOMAIN d.m_l_matrix[i] : column_has_term(h, t) /\ j \in DOMAIN ext_coeffs(h, t)
\* row i of d holds the column j
ERowHolds(d, i, j) ==
    /\ external_is_used(d.m_var_register, j)
    /\ lar_solver_to_local(d, j) \in DOMAIN d.m_e_matrix[i]

RecomputedRows ==
    {i \in AllRows(dio') : \E j \in dio.m_changed_columns : LRowInvolves(dio', lra', i, j)}

\* C33: when check() has processed the changed columns, every row it
\* rebuilt from its L-row has status F, is in the F-list exactly once, and
\* is the substitution of no variable
C33_RecomputedRowsInF ==
    [][CheckEntered =>
         \A i \in RecomputedRows :
            /\ dio'.m_entries[i].m_entry_status = "F"
            /\ Cardinality({p \in 1..Len(dio'.m_f) : dio'.m_f[p] = i}) = 1
            /\ \A k \in 1..Len(dio'.m_k2s) : dio'.m_k2s[k] # i]_vars

\* the states right after the host push of the round of the brancher that
\* starts here
PushedByBrancher ==
    IF pc.need THEN {lra_push(push_branch(S, br)) : br \in create_branch(lra)}
    ELSE {lra_push(S)}

\* C34: at the head of every round of the loop of branching_on_undef
\* m_lra_level is the size of the branch stack when a branch is about to be
\* created, and one less when the top branch was flipped; right after the
\* host push of the round it is the size of the branch stack.
C34_StackMirrorsDepth ==
    At("branch") =>
       /\ dio.m_lra_level = Len(dio.m_branch_stack) - (IF pc.need THEN 0 ELSE 1)
       /\ \A t \in PushedByBrancher : t.dio.m_lra_level = Len(t.dio.m_branch_stack)
       /\ Cardinality({n \in 1..Len(lra.trail) : lra.trail[n].kind = "scope"})
             >= dio.m_lra_level
\* a round starts with a branch below the flipped top branch
C34_Witness ==
    /\ At("branch") /\ ~pc.need
    /\ Len(dio.m_branch_stack) >= 2
    /\ dio.m_branch_stack[Len(dio.m_branch_stack)].m_fully_explored
    /\ dio.m_lra_level = Len(dio.m_branch_stack) - 1

\* C35: when a check() that ran the brancher has returned, the host has as
\* many open scopes as it had when check() was entered
C35_PushPopBalance ==
    (AtReturn /\ "branch" \in hist.ran) => ScopeDepth(lra) = hist.entry.depth
\* the same of the returns of a check() during which the host did not cancel
C35_BalanceUncancelled ==
    (AtReturn /\ "branch" \in hist.ran /\ hist.entry.cancel = "none" /\ ~lra.cancel)
       => ScopeDepth(lra) = hist.entry.depth

\* this step is a round of the loop of branching_on_undef
BranchRound == At("branch") /\ (dio' # dio \/ pc' # pc)
\* b2 is the branch b with its second side to explore
Flipped(b, b2) ==
    /\ ~b.m_fully_explored /\ b2.m_fully_explored
    /\ b2.m_left = ~b.m_left /\ b2.m_j = b.m_j /\ b2.m_rs = b.m_rs
\* the bound of the side of branch b is in force in the host h
SideInForce(h, b) ==
    IF b.m_left THEN h.upper[b.m_j].has /\ RLeq(h.upper[b.m_j].v, I2Q(b.m_rs))
    ELSE h.lower[b.m_j].has /\ RLeq(I2Q(b.m_rs + 1), h.lower[b.m_j].v)

\* the host finds the bound of the side of branch b infeasible, or the fixing
\* check reports a conflict
ClosedSide(b) ==
    \E r \in add_var_bound_for_branch(lra_push(S), b) :
       r.conflict \/ FeasibleSolutions(r.s.lra) = {}
\* the branch a round explores: the top of the stack, or the branch the round
\* creates (the top of the stack after the round, before its flip)
ExploredBranch ==
    IF pc.need
    THEN [dio'.m_branch_stack[Len(dio.m_branch_stack) + 1]
             EXCEPT !.m_left = ~@, !.m_fully_explored = FALSE]
    ELSE dio.m_branch_stack[Len(dio.m_branch_stack)]

\* C36: the brancher returns conflict only in a round that starts with every
\* branch of the stack on its second side, the first having been closed, and
\* that empties the stack; a round removes from the stack only branches on
\* their second side, leaves the other branches as they are but for the top
\* one, which it may flip to its second side, once; a round that starts
\* with a flipped top branch asserts the bound of the second side, and the
\* loop goes on above a branch only with the bound of its side in force; a
\* round flips or removes a branch only when the side it explored was found
\* infeasible.
C36_ExhaustiveExploration ==
    /\ [](At("branch") /\ ~pc.need =>
             /\ dio.m_branch_stack # <<>>
             /\ dio.m_branch_stack[Len(dio.m_branch_stack)].m_fully_explored)
    /\ [][BranchRound =>
            LET st == dio.m_branch_stack
                st2 == dio'.m_branch_stack
            IN  /\ (pc'.loc = "done" /\ ret' = "conflict") =>
                      /\ ~pc.need /\ st2 = <<>>
                      /\ \A n \in 1..Len(st) : st[n].m_fully_explored
                /\ \A n \in (Len(st2) + 1)..Len(st) : st[n].m_fully_explored
                /\ Len(st2) <= Len(st) + 1
                /\ Len(st2) = Len(st) + 1 => pc.need
                /\ \A n \in 1..Len(st2) :
                      \/ n <= Len(st) /\ st2[n] = st[n]
                      \/ /\ n <= Len(st) /\ n = Len(st2) /\ Flipped(st[n], st2[n])
                         /\ pc'.loc = "branch" /\ ~pc'.need
                      \/ /\ n = Len(st) + 1 /\ ~st2[n].m_fully_explored
                         /\ pc'.loc = "branch" => pc'.need
                      \/ /\ n = Len(st) + 1 /\ st2[n].m_fully_explored
                         /\ pc'.loc = "branch" /\ ~pc'.need
                /\ (pc'.loc = "branch" /\ pc'.need) =>
                      /\ st2 # <<>> /\ SideInForce(lra', st2[Len(st2)])
                      /\ ~pc.need => st2 = st
                /\ ((pc'.loc = "branch" /\ ~pc'.need) \/ (pc'.loc = "done" /\ ret' = "conflict"))
                      => ClosedSide(ExploredBranch)]_vars
\* the brancher returned conflict after it had a branch above another
C36_Witness ==
    /\ AtReturn /\ ret = "conflict" /\ "branch" \in hist.ran
    /\ dio.m_branch_stack = <<>>
    /\ lra.stats.m_dio_branching_infeasibles = hist.entry.stats.m_dio_branching_infeasibles + 1
    /\ lra.stats.m_dio_branch_iterations >= hist.entry.stats.m_dio_branch_iterations + 3

\* the round creates a branch
BranchCreated ==
    BranchRound /\ pc.need /\ Len(dio'.m_branch_stack) = Len(dio.m_branch_stack) + 1
\* the value v of the column of branch b is within the bound that
\* add_var_bound_for_branch asserts for b, the column having no other bound
InSide(b, v) ==
    \A r \in add_var_bound_for_branch(
                lra_push([S EXCEPT !.lra.lower[b.m_j] = NoBound,
                                   !.lra.upper[b.m_j] = NoBound]), b) :
       /\ r.s.lra.lower[b.m_j].has => RLeq(r.s.lra.lower[b.m_j].v, v)
       /\ r.s.lra.upper[b.m_j].has => RLeq(v, r.s.lra.upper[b.m_j].v)
\* the integers the sides are compared on
SideValues == {I2Q(v) : v \in (-(IntBox + 2))..(IntBox + 2)}

BranchCandidates ==
    IF pc.need THEN create_branch(lra)
    ELSE IF dio.m_branch_stack = <<>> THEN {}
    ELSE {dio.m_branch_stack[Len(dio.m_branch_stack)]}
\* the state after the host push and the bound of branch b, before the fixing
\* check
BoundAsserted(b) ==
    IF b.m_left
    THEN update_column_type_and_bound(lra_push(S), b.m_j, "LE", I2Q(b.m_rs))
    ELSE update_column_type_and_bound(lra_push(S), b.m_j, "GE", I2Q(b.m_rs + 1))
\* the bound of branch b fixes its column, whose local variable has a
\* substitution row
FixingApplies(b) ==
    LET s1 == BoundAsserted(b)
    IN  /\ column_is_fixed(s1.lra, b.m_j)
        /\ external_is_used(s1.dio.m_var_register, b.m_j)
        /\ can_substitute(s1.dio, lar_solver_to_local(s1.dio, b.m_j))
\* a divides the rational q (0 divides 0 only)
DividesQ(a, q) == IF a = 0 THEN q = Zero ELSE RIsInt(RDiv(q, I2Q(a)))
\* the gcd of the coefficients of row subst[j] other than j's does not divide
\* c + coeff_j * fixed_value(j)
FixingIndivisible(b) ==
    LET s1 == BoundAsserted(b)
        d == s1.dio
        j == lar_solver_to_local(d, b.m_j)
        row == d.m_e_matrix[d.m_k2s[j]]
        coef == IF j \in DOMAIN row THEN row[j] ELSE Zero
        g == gcd_of_set({row[k] : k \in (DOMAIN row) \ {j}})
    IN  ~DividesQ(g, RAdd(d.m_entries[d.m_k2s[j]].m_c,
                          RMul(coef, get_lower_bound(s1.lra, b.m_j))))
\* the rows, their lists and the substitution map
RowData(d) == <<d.m_e_matrix, d.m_l_matrix, d.m_entries, d.m_f, d.m_s, d.m_k2s>>

\* C38: in every state of the branching loop and for every branch the next
\* round may explore, the assertion of the bound of the branch leaves the
\* E-matrix, the L-matrix, the entries (constants and statuses), the F and S
\* lists and the substitution map as they are, and reports a conflict exactly
\* when the bound fixes a column whose local variable has a substitution row
\* and the gcd of the other coefficients of that row does not divide
\* c + coeff_j * fixed_value(j)
C38_FixingReadOnly ==
    At("branch") =>
       \A b \in BranchCandidates :
          \A r \in add_var_bound_for_branch(lra_push(S), b) :
             /\ RowData(r.s.dio) = RowData(dio)
             /\ r.conflict <=> (FixingApplies(b) /\ FixingIndivisible(b))
\* the bound of a branch fixes a column with a substitution row, and the
\* fixing check reports a conflict
C38_Witness ==
    /\ At("branch")
    /\ \E b \in BranchCandidates :
          /\ FixingApplies(b)
          /\ \E r \in add_var_bound_for_branch(lra_push(S), b) : r.conflict

\* the rows the next round of process_f applies normalize_e_by_gcd to: the
\* rows of the F-list up to the first one whose normalization fails
RowsToNormalize ==
    {dio.m_f[p] : p \in {p \in 1..Len(dio.m_f) :
                            \A q \in 1..(p - 1) : normalize_e_by_gcd(S, dio.m_f[q]).ok}}

\* C39: every row of the F-list that the next round of process_f hands to
\* normalize_e_by_gcd with an empty E-row (coefficient gcd 0) has the
\* constant 0, which is the assertion of normalize_e_by_gcd
C39_NormalizeAssertion ==
    At("process_f") =>
       \A i \in RowsToNormalize :
          dio.m_e_matrix[i] = EmptyVec => dio.m_entries[i].m_c = Zero
\* the same in the checks that are entered with a host whose bounds have a
\* solution
C39_AssertionSolvedHost ==
    (At("process_f") /\ lra.status # "INFEASIBLE") =>
       \A i \in RowsToNormalize :
          dio.m_e_matrix[i] = EmptyVec => dio.m_entries[i].m_c = Zero
\* normalize_e_by_gcd is about to be applied to an empty row with constant 0
C39_WitnessEmptyZero ==
    /\ At("process_f") /\ lra.status # "INFEASIBLE"
    /\ \E i \in RowsToNormalize : EmptyZero(dio, i)

\* this round of the branching loop asserted the bound of the top branch and
\* judged the branch open: the loop goes on to create a branch above it
BranchJudgedOpen == BranchRound /\ pc'.loc = "branch" /\ pc'.need
\* the bounds of the host h
HostBounds(h) == <<h.lower, h.upper>>

\* C40: a round of the branching loop that judges its branch open has run the
\* rewrite engine and the tightener on the state after the host push and the
\* bound of the branch: no row is left in the F-list, the tightener finds no
\* conflict there, and the host has the bounds the tightener leaves
C40_BranchExploration ==
    [][BranchJudgedOpen =>
         LET b == dio'.m_branch_stack[Len(dio'.m_branch_stack)]
         IN  \E r1 \in add_var_bound_for_branch(lra_push(S), b) :
                /\ ~r1.conflict /\ r1.s.dio.m_f = <<>>
                /\ \E r \in tighten_terms_with_S(r1.s) :
                      ~r.conflict /\ HostBounds(lra') = HostBounds(r.s.lra)]_vars
\* what the loop does: a round changes no row and tightens no bound, and a
\* branch judged open has passed the fixing check and the host's solve only
C40_JudgedByHostOnly ==
    [][BranchRound =>
         /\ RowData(dio') = RowData(dio)
         /\ hist'.tight = hist.tight
         /\ lra'.stats.m_dio_tighten_conflicts = lra.stats.m_dio_tighten_conflicts
         /\ BranchJudgedOpen =>
               LET b == dio'.m_branch_stack[Len(dio'.m_branch_stack)]
               IN  \E r1 \in add_var_bound_for_branch(lra_push(S), b) :
                      /\ ~r1.conflict
                      /\ HostBounds(lra') = HostBounds(r1.s.lra)
                      /\ lra'.status = "FEASIBLE"]_vars
====
